---------------------------- MODULE Spec2Model ----------------------------
(***************************************************************************)
(* Model of the OAuth 2.1 authorization server (src/src/auth/oauth.ts, the *)
(* second OAuthServer class, lines 431-1422) and of the session bootstrap  *)
(* of the /mcp endpoint (src/src/types/interfaces.ts).                     *)
(*                                                                         *)
(* Scheduling.  The server is one Node.js process.  A handler runs without *)
(* interruption between two awaits.  Every OAuth handler starts with       *)
(* `await this.ensureClientsLoaded()`, whose body has no await of its own, *)
(* and is synchronous from there to its response, so each of them is one   *)
(* action that begins with the effect of ensureClientsLoaded.  The one     *)
(* exception is registerClient, which awaits the file write started by     *)
(* saveClients: it is two actions (RegisterClient, WriteComplete).         *)
(*                                                                         *)
(* Values.  crypto.randomBytes(n).toString('hex') is modelled as the next  *)
(* value of a counter: a string never produced before.  Identifier 0       *)
(* stands for a missing or empty parameter (falsy in JavaScript), and the  *)
(* identifier after the last one the bounds allow stands for a well-formed *)
(* string the server never produced.  Date.now() is the variable now, in   *)
(* milliseconds.                                                           *)
(***************************************************************************)
EXTENDS Integers, Sequences, FiniteSets, TLC

\* ---------------------------------------------------------------- bounds
MaxClients == 2
MaxCodes == 1
MaxTokens == 2
MaxTicks == 2
MaxRestarts == 1
MaxSessions == 2
MaxRequests == 2
MaxCalls == 3
MaxAppends == 152
\* how many more calls the stack holds when destroySession is entered
MaxStack == 6
\* new SessionManager({maxSessions: ...}): the limit of the manager modelled
maxSessions == 2

\* ------------------------------------------------------ program constants
CODE_TTL_MS == 600000
TOKEN_TTL_MS == 3600000
VERIFIER_MIN_LEN == 43
VERIFIER_MAX_LEN == 128
staleThreshold == 1800000
HISTORY_LIMIT == 100
HISTORY_KEEP == 50
sessionTimeoutMs == 1800000

\* ------------------------------------------------------------- map helpers
EmptyMap == [k \in {} |-> 0]

MapSet(m, k, v) == [x \in (DOMAIN m) \cup {k} |-> IF x = k THEN v ELSE m[x]]

MapDelete(m, k) == [x \in (DOMAIN m) \ {k} |-> m[x]]

SeqIncludes(s, x) == \E i \in 1..Len(s) : s[i] = x

\* --------------------------------------------------------------- the URIs
\* The redirect targets used as inputs, with what `new URL(uri)` makes of
\* each: it throws for UriMalformed, and otherwise yields the protocol and
\* the hostname below.
UriHttps == "https://a.example/cb"
UriHttpsB == "https://b.example/cb"
UriLocal == "http://localhost:3000/cb"
UriPlain == "http://evil.example/cb"
UriMalformed == "not a uri"

UrlParses(uri) == uri \in {UriHttps, UriHttpsB, UriLocal, UriPlain}

UrlProtocol(uri) == IF uri \in {UriHttps, UriHttpsB} THEN "https:" ELSE "http:"

UrlHostname(uri) ==
    CASE uri = UriHttps -> "a.example"
      [] uri = UriHttpsB -> "b.example"
      [] uri = UriLocal -> "localhost"
      [] OTHER -> "evil.example"

\* ------------------------------------------------------------------ PKCE
\* A verifier is the sequence of its characters.
Unreserved == {"a", "b", "Z", "7", ".", "_", "~", "-"}

Rep(c, n) == [i \in 1..n |-> c]

VerifierA == Rep("a", VERIFIER_MIN_LEN)
VerifierB == Rep("b", VERIFIER_MIN_LEN)
VerifierMixed == Rep("a", VERIFIER_MIN_LEN - 4) \o <<"Z", ".", "~", "-">>
VerifierShort == Rep("a", VERIFIER_MIN_LEN - 1)
VerifierMax == Rep("a", VERIFIER_MAX_LEN)
VerifierLong == Rep("a", VERIFIER_MAX_LEN + 1)
VerifierPlus == Rep("a", VERIFIER_MIN_LEN - 1) \o <<"+">>

Verifiers ==
    {VerifierA, VerifierB, VerifierMixed, VerifierShort, VerifierMax,
     VerifierLong, VerifierPlus}

CharCode(c) ==
    CASE c = "a" -> 97 [] c = "b" -> 98 [] c = "Z" -> 90 [] c = "7" -> 55
      [] c = "." -> 46 [] c = "_" -> 95 [] c = "~" -> 126 [] c = "-" -> 45
      [] c = "+" -> 43 [] OTHER -> 32

\* crypto.createHash('sha256').update(v).digest('base64url'): a digest of
\* every character of the verifier in order, here the small polynomial
\* digest (7 * 31^n + c1 * 31^(n-1) + ... + cn) mod 251, plus one: a value
\* in 1..251 (0 is the missing challenge).  It is many-to-one, as any
\* digest is.
RECURSIVE Pow31(_)
Pow31(k) ==
    IF k = 0 THEN 1
    ELSE IF k % 2 = 0 THEN LET h == Pow31(k \div 2) IN (h * h) % 251
    ELSE (31 * Pow31(k - 1)) % 251

RECURSIVE Poly(_, _, _)
Poly(s, lo, hi) ==
    IF lo > hi THEN 0
    ELSE IF lo = hi THEN CharCode(s[lo]) % 251
    ELSE LET mid == (lo + hi) \div 2
         IN  (Poly(s, lo, mid) * Pow31(hi - mid) + Poly(s, mid + 1, hi)) % 251

S256(v) == ((7 * Pow31(Len(v)) + Poly(v, 1, Len(v))) % 251) + 1

VerifierLengthOk(v) == ~(Len(v) < VERIFIER_MIN_LEN \/ Len(v) > VERIFIER_MAX_LEN)

VerifierCharsOk(v) == Len(v) > 0 /\ \A i \in 1..Len(v) : v[i] \in Unreserved

\* ---------------------------------------------------------------- scopes
\* A scope name is the sequence of its ':'-separated parts, and a scope
\* string the sequence of its space-separated names.
ScopeMcp == <<"mcp">>
ScopeTasksRead == <<"tasks", "read">>
ScopeTasksWrite == <<"tasks", "write">>
ScopeCalendarRead == <<"calendar", "read">>
ScopeCalendarWrite == <<"calendar", "write">>

\* 'mcp tasks:read tasks:write calendar:read calendar:write'
DefaultScope_NoMcp == <<ScopeTasksRead, ScopeCalendarRead>>

DefaultScope ==
    <<ScopeMcp, ScopeTasksRead, ScopeTasksWrite, ScopeCalendarRead,
      ScopeCalendarWrite>>

\* scope.includes(':read')
IncludesColonRead(scope) == \E i \in 2..Len(scope) : scope[i] = "read"

\* scope.replace(':read', ':write'): the first occurrence only
RECURSIVE ReplaceFirstRead(_, _)
ReplaceFirstRead(scope, i) ==
    IF i > Len(scope) THEN scope
    ELSE IF scope[i] = "read" THEN [scope EXCEPT ![i] = "write"]
    ELSE ReplaceFirstRead(scope, i + 1)

ScopeGranted(grantedScopes, scope) ==
    \/ SeqIncludes(grantedScopes, scope)
    \/ /\ IncludesColonRead(scope)
       /\ SeqIncludes(grantedScopes, ReplaceFirstRead(scope, 2))

\* validateScopes(grantedScope, requiredScope): requiredScope is a sequence
\* of names, empty when none is required; grantedScope is a sequence of
\* names, empty when the token carries no scope.
validateScopes(grantedScope, requiredScope) ==
    IF requiredScope = <<>> THEN TRUE
    ELSE IF grantedScope = <<>> THEN FALSE
    ELSE IF SeqIncludes(grantedScope, ScopeMcp) THEN TRUE
    ELSE \A i \in 1..Len(requiredScope) :
            ScopeGranted(grantedScope, requiredScope[i])

\* ------------------------------------------------------------- the state
VARIABLES
    now,            \* Date.now(), milliseconds
    ticks,          \* how many times the clock has advanced
    clients,        \* OAuthServer.clients: client_id -> OAuthClient
    clientsLoaded,  \* OAuthServer.clientsLoaded
    storageFile,    \* ./oauth_clients.json: [state, data]
    pendingWrites,  \* fs.writeFile calls in flight, one per registerClient
    authCodes,      \* OAuthServer.authCodes: code -> its binding
    tokens,         \* OAuthServer.tokens: access token -> its data
    nextClient,     \* the next client_id randomBytes yields
    nextCode,       \* the next authorization code
    nextToken,      \* the next access token
    restarts,       \* how many times the process has restarted
    resp,           \* the last response a handler sent
    hist,           \* history: what was issued, exchanged, revoked, returned
    transports,         \* interfaces.ts transports: session id -> transport
    pendingTransports,  \* interfaces.ts pendingTransports: the ids in it
    nextSession,        \* the next session id uuidv4 yields
    requests,           \* how many /mcp requests have been handled
    sessions,           \* SessionManager.sessions: session id -> SessionState
    pendingSessions,    \* SessionManager.pendingSessions: id -> its promise
    suspended,          \* getOrCreateSession calls waiting at their await,
                        \* in the order their continuations will run
    calls,              \* how many getOrCreateSession calls have been made
    exited              \* process.exit has been called: the process is gone

managerVars == <<sessions, pendingSessions, suspended, calls>>

processVars == <<exited>>

sessionVars ==
    <<transports, pendingTransports, nextSession, requests, managerVars,
      processVars>>

FileAbsent == [state |-> "absent", data |-> EmptyMap]
FileCorrupt == [state |-> "corrupt", data |-> EmptyMap]
FileOf(data) == [state |-> "ok", data |-> data]

NoResp ==
    [op |-> "none", req |-> [none |-> TRUE], status |-> 0, error |-> "",
     desc |-> "", out |-> 0, uri |-> ""]

\* The (req, res) pair of the handler that has just answered: op names the
\* handler, req is the request it was called with, out the identifier the
\* response returns, uri the URI the response names.
Respond(op, req, status, error, desc, out, uri) ==
    [op |-> op, req |-> req, status |-> status, error |-> error,
     desc |-> desc, out |-> out, uri |-> uri]

\* No handler is running: the last one has returned.
Idle == resp.op = "none"

\* The history kept for stating the properties; no handler reads it.
NoHist ==
    [codes |-> EmptyMap,      \* code -> when authorize issued it
     minted |-> EmptyMap,     \* token -> the code it came from (0: none), when
     revoked |-> {},          \* tokens revoke removed from the store
     regReturned |-> {},      \* client_ids registerClient returned with 200
     writeFailed |-> {},      \* client_ids whose file write failed
     registered |-> EmptyMap, \* client_id -> the client as it was registered
     served |-> EmptyMap,     \* session id a request carried while it was
                              \* not active -> the sessions it was given
     executed |-> {},         \* the tokens a tool action was run for
     hooked |-> {},           \* sessions whose transport.onclose has run
     closes |-> EmptyMap,     \* session -> how many times its onclose ran
     swept |-> {},            \* sessions cleanupStaleSessions has destroyed
     failed |-> {},           \* session ids whose creation was rejected
     sigint |-> FALSE,        \* the process has been sent SIGINT
     appended |-> EmptyMap]   \* session -> how many entries addToHistory
                              \* has pushed to it

\* A client an earlier run of the server registered and saved.
SavedClient ==
    [client_id |-> 1, client_name |-> "T",
     redirect_uris |-> <<UriHttps, UriLocal>>, created_at |-> 0]

\* The state after `new OAuthServer()`: empty maps, nothing loaded.  The
\* storage file is absent on the first run of the server, and otherwise
\* holds what an earlier run saved.
Init ==
    /\ now = 0
    /\ ticks = 0
    /\ clients = EmptyMap
    /\ clientsLoaded = FALSE
    /\ storageFile \in {FileAbsent, FileOf(MapSet(EmptyMap, 1, SavedClient))}
    /\ pendingWrites = {}
    /\ authCodes = EmptyMap
    /\ tokens = EmptyMap
    /\ nextClient = IF storageFile = FileAbsent THEN 1 ELSE 2
    /\ nextCode = 1
    /\ nextToken = 1
    /\ restarts = 0
    /\ resp = NoResp
    /\ hist = IF storageFile = FileAbsent THEN NoHist
              ELSE [NoHist EXCEPT !.regReturned = {1},
                                  !.registered = MapSet(EmptyMap, 1,
                                                        SavedClient)]
    /\ transports = EmptyMap
    /\ pendingTransports = {}
    /\ nextSession = 1
    /\ requests = 0
    /\ sessions = EmptyMap
    /\ pendingSessions = EmptyMap
    /\ suspended = <<>>
    /\ calls = 0
    /\ exited = FALSE

\* ---------------------------------------------------- ensureClientsLoaded
\* The registry after ensureClientsLoaded: read from the file on the first
\* call if the file exists and parses, left as it is otherwise.  The file
\* holds JSON.stringify(Object.fromEntries(clients)), which JSON.parse and
\* Object.entries turn back into the same entries.
ensureClientsLoaded_Skip == clients

ensureClientsLoaded ==
    IF clientsLoaded THEN clients
    ELSE IF storageFile.state = "ok" THEN storageFile.data
    ELSE clients

\* ---------------------------------------------------------- registerClient
\* A registration body: client_name ("" when missing or empty) and
\* redirect_uris, [kind, items] with kind "missing", "string" (present, not
\* an array) or "array".
RegFieldsMissing(body) ==
    \/ body.client_name = ""
    \/ body.redirect_uris.kind # "array"

UriAllowed_Any(uri) == TRUE

UriAllowed(uri) ==
    LET isHttps == UrlProtocol(uri) = "https:"
        isLocalhost == UrlHostname(uri) \in {"localhost", "127.0.0.1"}
    IN  ~(~isHttps /\ ~isLocalhost)

\* What the loop over redirect_uris finds wrong with one URI.
UriProblem(uri) ==
    IF ~UrlParses(uri) THEN "Invalid redirect URI format"
    ELSE IF ~UriAllowed(uri) THEN "Redirect URI must be HTTPS or localhost"
    ELSE ""

\* The index of the first URI the loop rejects, 0 when it rejects none.
RECURSIVE FirstOffending(_, _)
FirstOffending(items, i) ==
    IF i > Len(items) THEN 0
    ELSE IF UriProblem(items[i]) # "" THEN i
    ELSE FirstOffending(items, i + 1)

NewClient(client_id, body) ==
    [client_id |-> client_id, client_name |-> body.client_name,
     redirect_uris |-> body.redirect_uris.items, created_at |-> now]

\* registerClient up to `await fs.writeFile(...)` in saveClients: a rejected
\* request is answered at once; an accepted one sets the client in the map,
\* takes the snapshot Object.fromEntries(this.clients) and starts the write.
RegisterClient(body) ==
    LET loaded == ensureClientsLoaded
        bad == IF RegFieldsMissing(body) THEN 0
               ELSE FirstOffending(body.redirect_uris.items, 1)
    IN  /\ Idle
        /\ clientsLoaded' = TRUE
        /\ IF RegFieldsMissing(body)
           THEN /\ clients' = loaded
                /\ resp' = Respond("register", body, 400, "invalid_request",
                                   "client_name and redirect_uris are required",
                                   0, "")
                /\ UNCHANGED <<pendingWrites, nextClient, hist>>
           ELSE IF bad # 0
           THEN /\ clients' = loaded
                /\ resp' = Respond("register", body, 400, "invalid_redirect_uri",
                                   UriProblem(body.redirect_uris.items[bad]),
                                   0, body.redirect_uris.items[bad])
                /\ UNCHANGED <<pendingWrites, nextClient, hist>>
           ELSE /\ nextClient <= MaxClients
                /\ clients' = MapSet(loaded, nextClient,
                                     NewClient(nextClient, body))
                /\ pendingWrites' = pendingWrites \cup
                       {[client_id |-> nextClient, body |-> body,
                         snapshot |-> clients']}
                /\ nextClient' = nextClient + 1
                /\ hist' = [hist EXCEPT !.registered =
                               MapSet(@, nextClient,
                                      NewClient(nextClient, body))]
                /\ UNCHANGED resp
        /\ UNCHANGED <<now, ticks, storageFile, authCodes, tokens, nextCode,
                       nextToken, restarts>>
        /\ UNCHANGED sessionVars

\* How fs.writeFile can end: "written", the file holds the data; "failed",
\* it rejects and the file is as it was; "torn", it resolves but another
\* writeFile of the same path ran at the same time, and the bytes of the
\* two are mixed.
WriteOutcomes == {"written", "failed", "torn"}

\* The file after a writeFile of snapshot ends with outcome.
FileAfterWrite(file, snapshot, outcome) ==
    IF outcome = "written" THEN FileOf(snapshot)
    ELSE IF outcome = "torn" THEN FileCorrupt
    ELSE file

\* The write of saveClients ends, and registerClient runs on to its
\* response.  When the write fails the catch in saveClients logs the error
\* and returns, so registerClient answers res.json({client_id, ...}) either
\* way.
WriteComplete(w, outcome) ==
    /\ Idle
    /\ w \in pendingWrites
    /\ outcome = "torn" => pendingWrites # {w}
    /\ pendingWrites' = pendingWrites \ {w}
    /\ storageFile' = FileAfterWrite(storageFile, w.snapshot, outcome)
    /\ resp' = Respond("register", w.body, 200, "", "", w.client_id, "")
    /\ hist' = [hist EXCEPT
                  !.regReturned = @ \cup {w.client_id},
                  !.writeFailed = IF outcome = "failed"
                                  THEN @ \cup {w.client_id} ELSE @]
    /\ UNCHANGED <<now, ticks, clients, clientsLoaded, authCodes, tokens,
                   nextClient, nextCode, nextToken, restarts>>
    /\ UNCHANGED sessionVars

\* The process stops and starts again: the maps of the new OAuthServer are
\* empty, clientsLoaded is false and there are no transports; the file stays
\* as it is.  The registrations that were waiting for their write never
\* answer.
Restart ==
    /\ Idle
    /\ restarts < MaxRestarts
    /\ restarts' = restarts + 1
    /\ clients' = EmptyMap
    /\ clientsLoaded' = FALSE
    /\ authCodes' = EmptyMap
    /\ tokens' = EmptyMap
    /\ pendingWrites' = {}
    /\ transports' = EmptyMap
    /\ pendingTransports' = {}
    /\ resp' = NoResp
    /\ UNCHANGED <<now, ticks, storageFile, nextClient, nextCode, nextToken,
                   hist, nextSession, requests>>
    /\ UNCHANGED <<managerVars, processVars>>

\* ---------------------------------------------------------------- authorize
\* An authorization request: client_id and code_challenge are identifiers
\* (0 when missing), the others strings ("" when missing).  The optional
\* scope and state parameters are left out: scope is never read, and state
\* is only copied into the redirect.
AuthorizeMissing(req) ==
    \/ req.client_id = 0
    \/ req.response_type = ""
    \/ req.redirect_uri = ""
    \/ req.code_challenge = 0
    \/ req.code_challenge_method = ""

\* An authorize that looks the client up before it checks response_type and
\* code_challenge_method.
AuthorizeError_ClientFirst(req, registry) ==
    IF AuthorizeMissing(req) THEN "invalid_request"
    ELSE IF req.client_id \notin DOMAIN registry THEN "invalid_client"
    ELSE IF req.response_type # "code" THEN "unsupported_response_type"
    ELSE IF req.code_challenge_method # "S256" THEN "invalid_request"
    ELSE IF ~SeqIncludes(registry[req.client_id].redirect_uris, req.redirect_uri)
         THEN "invalid_redirect_uri"
    ELSE ""

\* The error authorize answers with, "" when it accepts the request.
AuthorizeError(req, registry) ==
    IF AuthorizeMissing(req) THEN "invalid_request"
    ELSE IF req.response_type # "code" THEN "unsupported_response_type"
    ELSE IF req.code_challenge_method # "S256" THEN "invalid_request"
    ELSE IF req.client_id \notin DOMAIN registry THEN "invalid_client"
    ELSE IF ~SeqIncludes(registry[req.client_id].redirect_uris, req.redirect_uri)
         THEN "invalid_redirect_uri"
    ELSE ""

AuthorizeErrorDescription(req, registry) ==
    IF AuthorizeMissing(req) THEN "Missing required parameters"
    ELSE IF req.response_type # "code"
         THEN "Only authorization code flow is supported"
    ELSE IF req.code_challenge_method # "S256"
         THEN "Only S256 code challenge method is supported"
    ELSE IF req.client_id \notin DOMAIN registry THEN "Unknown client"
    ELSE "Redirect URI not registered for this client"

NewAuthCode(req) ==
    [client_id |-> req.client_id, redirect_uri |-> req.redirect_uri,
     code_challenge |-> req.code_challenge, expires_at |-> now + CODE_TTL_MS]

Authorize(req) ==
    LET loaded == ensureClientsLoaded
        error == AuthorizeError(req, loaded)
    IN  /\ Idle
        /\ clientsLoaded' = TRUE
        /\ clients' = loaded
        /\ IF error # ""
           THEN /\ resp' = Respond("authorize", req, 400, error,
                                   AuthorizeErrorDescription(req, loaded), 0, "")
                /\ UNCHANGED <<authCodes, nextCode, hist>>
           ELSE /\ nextCode <= MaxCodes
                /\ authCodes' = MapSet(authCodes, nextCode, NewAuthCode(req))
                /\ nextCode' = nextCode + 1
                /\ resp' = Respond("authorize", req, 302, "", "",
                                   nextCode, req.redirect_uri)
                /\ hist' = [hist EXCEPT !.codes = MapSet(@, nextCode, now)]
        /\ UNCHANGED <<now, ticks, storageFile, pendingWrites, tokens,
                       nextClient, nextToken, restarts>>
        /\ UNCHANGED sessionVars

\* -------------------------------------------------------------------- token
\* A token request: grant_type and redirect_uri are strings ("" when
\* missing), code and client_id identifiers (0 when missing), code_verifier
\* the sequence of its characters (empty when missing).
NewTokenData(client_id, grant_type) ==
    [client_id |-> client_id, expires_at |-> now + TOKEN_TTL_MS,
     scope |-> DefaultScope, granted_at |-> now, iat |-> now \div 1000,
     grant_type |-> grant_type, sub |-> client_id, last_used |-> now]

\* Date.now() > authCode.expires_at
CodeExpired(t, authCode) == t > authCode.expires_at

\* A token() that compares the client and forgets the redirect target.
BindingMismatch_ClientOnly(authCode, req) ==
    authCode.client_id # req.client_id

\* authCode.client_id !== client_id || authCode.redirect_uri !== redirect_uri
BindingMismatch(authCode, req) ==
    \/ authCode.client_id # req.client_id
    \/ authCode.redirect_uri # req.redirect_uri

\* A token() that accepts every well-formed verifier.
ChallengeMismatch_Never(authCode, code_verifier) == FALSE

\* challengeFromVerifier !== authCode.code_challenge
ChallengeMismatch(authCode, code_verifier) ==
    S256(code_verifier) # authCode.code_challenge

\* A token() that leaves the code in the store.
ConsumeCode_Keep(codes, code) == codes

\* this.authCodes.delete(code), after the token is stored
ConsumeCode(codes, code) == MapDelete(codes, code)

\* A token() that takes every client_id for a registered one.
ClientKnown_Any(registry, client_id) == TRUE

\* const client = this.clients.get(client_id); !client
ClientKnown(registry, client_id) == client_id \in DOMAIN registry

\* What token() decides for a request: the response and what it does to the
\* stores.  mint: a token is stored; drop: the code is deleted.
TokenDecision_VerifierFirst(req, registry) ==
    LET Reject(error, desc, drop) ==
            [status |-> 400, error |-> error, desc |-> desc, mint |-> FALSE,
             drop |-> drop, grant |-> ""]
        Grant(grant, drop) ==
            [status |-> 200, error |-> "", desc |-> "", mint |-> TRUE,
             drop |-> drop, grant |-> grant]
    IN  IF req.grant_type = "" \/ req.client_id = 0
        THEN Reject("invalid_request",
                    "Missing required parameters: grant_type and client_id",
                    FALSE)
        ELSE IF req.grant_type \notin {"authorization_code", "client_credentials"}
        THEN Reject("unsupported_grant_type",
                    "Supported grant types: authorization_code, client_credentials",
                    FALSE)
        ELSE IF req.grant_type = "client_credentials"
        THEN IF ~ClientKnown(registry, req.client_id)
             THEN Reject("invalid_client", "Unknown client", FALSE)
             ELSE Grant("client_credentials", FALSE)
        ELSE IF req.code = 0 \/ req.redirect_uri = "" \/ req.code_verifier = <<>>
        THEN Reject("invalid_request",
                    "Missing required parameters for authorization_code grant",
                    FALSE)
        ELSE IF req.code \notin DOMAIN authCodes
        THEN Reject("invalid_grant", "Invalid or expired authorization code",
                    FALSE)
        ELSE IF CodeExpired(now, authCodes[req.code])
        THEN Reject("invalid_grant", "Authorization code expired", TRUE)
        ELSE IF ~VerifierLengthOk(req.code_verifier)
        THEN Reject("invalid_request",
                    "code_verifier must be 43-128 characters long", FALSE)
        ELSE IF ~VerifierCharsOk(req.code_verifier)
        THEN Reject("invalid_request",
                    "code_verifier contains invalid characters", FALSE)
        ELSE IF BindingMismatch(authCodes[req.code], req)
        THEN Reject("invalid_grant", "Client ID or redirect URI mismatch",
                    FALSE)
        ELSE IF authCodes[req.code].code_challenge = 0
        THEN Reject("invalid_grant",
                    "Invalid authorization code - missing PKCE challenge",
                    FALSE)
        ELSE IF ChallengeMismatch(authCodes[req.code], req.code_verifier)
        THEN Reject("invalid_grant", "PKCE verification failed", FALSE)
        ELSE Grant("authorization_code", TRUE)

TokenDecision(req, registry) ==
    LET Reject(error, desc, drop) ==
            [status |-> 400, error |-> error, desc |-> desc, mint |-> FALSE,
             drop |-> drop, grant |-> ""]
        Grant(grant, drop) ==
            [status |-> 200, error |-> "", desc |-> "", mint |-> TRUE,
             drop |-> drop, grant |-> grant]
    IN  IF req.grant_type = "" \/ req.client_id = 0
        THEN Reject("invalid_request",
                    "Missing required parameters: grant_type and client_id",
                    FALSE)
        ELSE IF req.grant_type \notin {"authorization_code", "client_credentials"}
        THEN Reject("unsupported_grant_type",
                    "Supported grant types: authorization_code, client_credentials",
                    FALSE)
        ELSE IF req.grant_type = "client_credentials"
        THEN IF ~ClientKnown(registry, req.client_id)
             THEN Reject("invalid_client", "Unknown client", FALSE)
             ELSE Grant("client_credentials", FALSE)
        ELSE IF req.code = 0 \/ req.redirect_uri = "" \/ req.code_verifier = <<>>
        THEN Reject("invalid_request",
                    "Missing required parameters for authorization_code grant",
                    FALSE)
        ELSE IF req.code \notin DOMAIN authCodes
        THEN Reject("invalid_grant", "Invalid or expired authorization code",
                    FALSE)
        ELSE IF CodeExpired(now, authCodes[req.code])
        THEN Reject("invalid_grant", "Authorization code expired", TRUE)
        ELSE IF BindingMismatch(authCodes[req.code], req)
        THEN Reject("invalid_grant", "Client ID or redirect URI mismatch",
                    FALSE)
        ELSE IF authCodes[req.code].code_challenge = 0
        THEN Reject("invalid_grant",
                    "Invalid authorization code - missing PKCE challenge",
                    FALSE)
        ELSE IF ~VerifierLengthOk(req.code_verifier)
        THEN Reject("invalid_request",
                    "code_verifier must be 43-128 characters long", FALSE)
        ELSE IF ~VerifierCharsOk(req.code_verifier)
        THEN Reject("invalid_request",
                    "code_verifier contains invalid characters", FALSE)
        ELSE IF ChallengeMismatch(authCodes[req.code], req.code_verifier)
        THEN Reject("invalid_grant", "PKCE verification failed", FALSE)
        ELSE Grant("authorization_code", TRUE)

Token(req) ==
    LET loaded == ensureClientsLoaded
        d == TokenDecision(req, loaded)
    IN  /\ Idle
        /\ clientsLoaded' = TRUE
        /\ clients' = loaded
        /\ d.mint => nextToken <= MaxTokens
        /\ tokens' = IF d.mint
                     THEN MapSet(tokens, nextToken,
                                 NewTokenData(req.client_id, d.grant))
                     ELSE tokens
        /\ nextToken' = IF d.mint THEN nextToken + 1 ELSE nextToken
        /\ authCodes' = IF d.drop THEN ConsumeCode(authCodes, req.code)
                        ELSE authCodes
        /\ resp' = Respond("token", req, d.status, d.error, d.desc,
                           IF d.mint THEN nextToken ELSE 0, "")
        /\ hist' = IF d.mint
                   THEN [hist EXCEPT
                           !.minted = MapSet(@, nextToken,
                               [code |-> IF d.grant = "authorization_code"
                                         THEN req.code ELSE 0,
                                issued_at |-> now])]
                   ELSE hist
        /\ UNCHANGED <<now, ticks, storageFile, pendingWrites, nextClient,
                       nextCode, restarts>>
        /\ UNCHANGED sessionVars

\* ------------------------------------------------------------ validateToken
\* An access token is an identifier: 0 a missing or empty one, -1 a string
\* that is not 64 hex digits, 1 and up the 64-hex-digit strings.
IsHex64(token) == token >= 1

\* A validateToken that never finds a token expired.
TokenExpired_Never(t, tokenData) == FALSE

\* now > tokenData.expires_at
TokenExpired(t, tokenData) == t > tokenData.expires_at

\* What validateToken returns, as [valid, error, desc, client_id].
ValidateResult(token, requiredScope) ==
    LET Invalid(error, desc, client_id) ==
            [valid |-> FALSE, error |-> error, desc |-> desc,
             client_id |-> client_id]
    IN  IF token = 0 THEN Invalid("invalid_token", "Access token required", 0)
        ELSE IF ~IsHex64(token)
        THEN Invalid("invalid_token", "Invalid token format", 0)
        ELSE IF token \notin DOMAIN tokens
        THEN Invalid("invalid_token", "Token not found or expired", 0)
        ELSE IF TokenExpired(now, tokens[token])
        THEN Invalid("invalid_token", "Access token expired", 0)
        ELSE IF /\ requiredScope # <<>>
                /\ ~validateScopes(tokens[token].scope, requiredScope)
        THEN Invalid("insufficient_scope", "Required scope not granted",
                     tokens[token].client_id)
        ELSE [valid |-> TRUE, error |-> "", desc |-> "",
              client_id |-> tokens[token].client_id]

\* A validateToken that rejects an expired token and leaves it in the store.
ValidateStore_NoEvict(token) ==
    IF token = 0 \/ ~IsHex64(token) \/ token \notin DOMAIN tokens THEN tokens
    ELSE IF TokenExpired(now, tokens[token]) THEN tokens
    ELSE [tokens EXCEPT ![token].last_used = now]

ValidateStore_Extend(token) ==
    IF token = 0 \/ ~IsHex64(token) \/ token \notin DOMAIN tokens THEN tokens
    ELSE IF TokenExpired(now, tokens[token]) THEN MapDelete(tokens, token)
    ELSE [tokens EXCEPT ![token].last_used = now,
                        ![token].expires_at = now + TOKEN_TTL_MS]

\* The Token Store after validateToken: an expired token is deleted, a live
\* one has last_used set (before the scope is looked at).
ValidateStore(token) ==
    IF token = 0 \/ ~IsHex64(token) \/ token \notin DOMAIN tokens THEN tokens
    ELSE IF TokenExpired(now, tokens[token]) THEN MapDelete(tokens, token)
    ELSE [tokens EXCEPT ![token].last_used = now]

ValidateToken(token, requiredScope) ==
    LET r == ValidateResult(token, requiredScope)
        req == [token |-> token, requiredScope |-> requiredScope]
    IN  /\ Idle
        /\ tokens' = ValidateStore(token)
        /\ resp' = Respond("validate", req, IF r.valid THEN 200 ELSE 401,
                           r.error, r.desc, r.client_id, "")
        /\ UNCHANGED <<now, ticks, clients, clientsLoaded, storageFile,
                       pendingWrites, authCodes, nextClient, nextCode,
                       nextToken, restarts, hist>>
        /\ UNCHANGED sessionVars

\* --------------------------------------------------------------- introspect
\* An introspect that looks only at whether the token is in the store.
IntrospectInactive_PresenceOnly(token) == token \notin DOMAIN tokens

\* !tokenData || tokenData.expires_at < Date.now()
IntrospectInactive(token) ==
    \/ token \notin DOMAIN tokens
    \/ tokens[token].expires_at < now

\* The response body {active: ...} is given in desc, as "active" or
\* "inactive"; out is the client_id an active response names.
Introspect(token) ==
    LET req == [token |-> token]
    IN  /\ Idle
        /\ clientsLoaded' = TRUE
        /\ clients' = ensureClientsLoaded
        /\ resp' = IF token = 0
                   THEN Respond("introspect", req, 400, "invalid_request",
                                "token parameter is required", 0, "")
                   ELSE IF IntrospectInactive(token)
                   THEN Respond("introspect", req, 200, "", "inactive", 0, "")
                   ELSE Respond("introspect", req, 200, "", "active",
                                tokens[token].client_id, "")
        /\ UNCHANGED <<now, ticks, storageFile, pendingWrites, authCodes,
                       tokens, nextClient, nextCode, nextToken, restarts,
                       hist>>
        /\ UNCHANGED sessionVars

\* ------------------------------------------------------------------- revoke
\* A revoke that leaves the token in the store.
RevokeStore_Keep(store, token) == store

\* this.tokens.delete(token)
RevokeStore(store, token) == MapDelete(store, token)

\* The loop of revoke over authCodes: codeData.expires_at < Date.now()
RevokePurgeCodes_All(codes) == EmptyMap

RevokePurgeCodes(codes) ==
    [c \in {k \in DOMAIN codes : ~(codes[k].expires_at < now)} |-> codes[c]]

Revoke(token) ==
    LET req == [token |-> token]
    IN  /\ Idle
        /\ clientsLoaded' = TRUE
        /\ clients' = ensureClientsLoaded
        /\ IF token = 0
           THEN /\ resp' = Respond("revoke", req, 400, "invalid_request",
                                   "token parameter is required", 0, "")
                /\ UNCHANGED <<tokens, authCodes, hist>>
           ELSE /\ tokens' = RevokeStore(tokens, token)
                /\ authCodes' = RevokePurgeCodes(authCodes)
                /\ resp' = Respond("revoke", req, 200, "", "", 0, "")
                /\ hist' = IF token \in DOMAIN tokens
                           THEN [hist EXCEPT !.revoked = @ \cup {token}]
                           ELSE hist
        /\ UNCHANGED <<now, ticks, storageFile, pendingWrites, nextClient,
                       nextCode, nextToken, restarts>>
        /\ UNCHANGED sessionVars

\* ----------------------------------------------------------- cleanupExpired
\* The setInterval callback of the constructor (every 5 minutes).
CleanupExpired_Inclusive ==
    /\ Idle
    /\ authCodes' = [c \in {k \in DOMAIN authCodes :
                              ~(now >= authCodes[k].expires_at)} |-> authCodes[c]]
    /\ tokens' = [t \in {k \in DOMAIN tokens :
                           ~(now >= tokens[k].expires_at)} |-> tokens[t]]
    /\ UNCHANGED <<now, ticks, clients, clientsLoaded, storageFile,
                   pendingWrites, nextClient, nextCode, nextToken, restarts,
                   resp, hist>>
    /\ UNCHANGED sessionVars

CleanupExpired ==
    /\ Idle
    /\ authCodes' = [c \in {k \in DOMAIN authCodes :
                              ~(now > authCodes[k].expires_at)} |-> authCodes[c]]
    /\ tokens' = [t \in {k \in DOMAIN tokens :
                           ~(now > tokens[k].expires_at)} |-> tokens[t]]
    /\ UNCHANGED <<now, ticks, clients, clientsLoaded, storageFile,
                   pendingWrites, nextClient, nextCode, nextToken, restarts,
                   resp, hist>>
    /\ UNCHANGED sessionVars

\* --------------------------------------------------------- handler return
\* The handler that sent resp returns; the event loop takes the next event.
Return ==
    /\ ~Idle
    /\ resp' = NoResp
    /\ UNCHANGED <<now, ticks, clients, clientsLoaded, storageFile,
                   pendingWrites, authCodes, tokens, nextClient, nextCode,
                   nextToken, restarts, hist>>
    /\ UNCHANGED sessionVars

\* ---------------------------------------------------------------- the clock
Tick(d) ==
    /\ Idle
    /\ ticks < MaxTicks
    /\ ticks' = ticks + 1
    /\ now' = now + d
    /\ UNCHANGED <<clients, clientsLoaded, storageFile, pendingWrites,
                   authCodes, tokens, nextClient, nextCode, nextToken,
                   restarts, resp, hist>>
    /\ UNCHANGED sessionVars

\* ------------------------------------------------------ the /mcp endpoint
\* A session id is an identifier: 0 for a request without Mcp-Session-Id
\* header, 1..MaxSessions the strings uuidv4 yields, in this order, and
\* MaxSessions + 1 an id of a client's own making, which uuidv4 never
\* yields.  A header carries no id, an id the server has handed out, or the
\* id of the client's making.
ClientMadeSessionId == MaxSessions + 1

HeaderPossible(sessionId) ==
    sessionId < nextSession \/ sessionId = ClientMadeSessionId

\* transport.addToHistory: push, then keep the last 50 of more than 100.
\* The history is given by its length.
addToHistory(conversationHistory) ==
    IF conversationHistory + 1 > HISTORY_LIMIT THEN HISTORY_KEEP
    ELSE conversationHistory + 1

\* The transport createAndConnectTransport builds.
NewTransport(sessionId, token, client_id) ==
    [sessionId |-> sessionId, token |-> token, client_id |-> client_id,
     createdAt |-> now, lastActivity |-> now, conversationHistory |-> 0]

\* createAndConnectTransport(sessionId, authContext) for an id that is in
\* neither map, as [transports, pendingTransports] after it.  It puts the
\* id in pendingTransports, awaits a promise that is already resolved, and
\* then stores the transport and takes the id out of pendingTransports.
\* The continuation of such an await is a microtask: it runs before the
\* event loop takes the next request or timer, so nothing runs in between.
createAndConnectTransport(sessionId, token, client_id) ==
    IF sessionId \in DOMAIN transports \/ sessionId \in pendingTransports
    THEN [transports |-> transports, pendingTransports |-> pendingTransports]
    ELSE [transports |-> MapSet(transports, sessionId,
                                NewTransport(sessionId, token, client_id)),
          pendingTransports |->
              (pendingTransports \cup {sessionId}) \ {sessionId}]

\* sessionId && transports[sessionId]
ExistingSession(header) == header # 0 /\ header \in DOMAIN transports

\* The session id the handler of /mcp goes on with: the one of the header
\* when it names an active transport, and a new uuidv4() otherwise.
ResolveSessionId(header) ==
    IF ExistingSession(header) THEN header ELSE nextSession

\* A handler of /mcp that goes on whatever validateToken returned.
Authenticated_Always(tokenValidation) == TRUE

\* !tokenValidation.valid
Authenticated(tokenValidation) == tokenValidation.valid

\* app.all('/mcp') for a GET request: token is what extractToken finds in
\* the Authorization header (0 when it finds none), header the session id
\* of the Mcp-Session-Id header.
McpRequest(token, header) ==
    LET req == [token |-> token, sessionId |-> header]
        r == ValidateResult(token, <<>>)
        sessionId == ResolveSessionId(header)
        isNewSession == ~ExistingSession(header)
        created == createAndConnectTransport(sessionId, token, r.client_id)
        after == IF isNewSession THEN created.transports
                 ELSE [transports EXCEPT ![sessionId].lastActivity = now]
    IN  /\ Idle
        /\ HeaderPossible(header)
        /\ requests < MaxRequests
        /\ requests' = requests + 1
        /\ IF token = 0
           THEN /\ resp' = Respond("mcp", req, 401, "unauthorized",
                                   "Bearer token required", 0, "")
                /\ UNCHANGED <<tokens, transports, pendingTransports,
                               nextSession, hist>>
           ELSE IF ~Authenticated(r)
           THEN /\ tokens' = ValidateStore(token)
                /\ resp' = Respond("mcp", req, 401, r.error, r.desc, 0, "")
                /\ UNCHANGED <<transports, pendingTransports, nextSession,
                               hist>>
           ELSE /\ tokens' = ValidateStore(token)
                /\ isNewSession => nextSession <= MaxSessions
                /\ nextSession' = IF isNewSession THEN nextSession + 1
                                  ELSE nextSession
                /\ transports' =
                       [after EXCEPT ![sessionId].conversationHistory =
                                         addToHistory(@)]
                /\ pendingTransports' = IF isNewSession
                                        THEN created.pendingTransports
                                        ELSE pendingTransports
                /\ resp' = Respond("mcp", req, 200, "", "", sessionId, "")
                /\ hist' = IF header # 0 /\ isNewSession
                           THEN [hist EXCEPT !.served =
                                    MapSet(@, header,
                                           (IF header \in DOMAIN @
                                            THEN @[header] ELSE {})
                                               \cup {sessionId})]
                           ELSE hist
        /\ UNCHANGED <<now, ticks, clients, clientsLoaded, storageFile,
                       pendingWrites, authCodes, nextClient, nextCode,
                       nextToken, restarts>>
        /\ UNCHANGED <<managerVars, processVars>>

\* checkScopes(grantedScope, requiredScopes), the scope check of the tool
\* layer: a direct match, 'mcp', the bare resource, or write for read.
checkScopes(grantedScope, requiredScopes) ==
    IF grantedScope = <<>> THEN FALSE
    ELSE \A i \in 1..Len(requiredScopes) :
            LET required == requiredScopes[i]
            IN  \/ SeqIncludes(grantedScope, required)
                \/ SeqIncludes(grantedScope, ScopeMcp)
                \/ /\ Len(required) >= 2
                   /\ \/ SeqIncludes(grantedScope, <<required[1]>>)
                      \/ /\ required[2] = "read"
                         /\ SeqIncludes(grantedScope,
                                        <<required[1], "write">>)

\* The tools of tools/call used as inputs, and the scope each case of the
\* switch checks before it calls the Google API; "no_such_tool" falls to
\* the default case.
ToolNames == {"list_tasks", "create_event", "no_such_tool"}

ToolKnown(toolName) == toolName \in {"list_tasks", "create_event"}

ToolScope(toolName) ==
    IF toolName = "list_tasks" THEN ScopeTasksRead ELSE ScopeCalendarWrite

\* app.all('/mcp') for a POST request of tools/call with the name toolName
\* and the arguments the tool needs: authentication and session as for
\* GET; then the scope check of the tool, the call of the Google API (the
\* tool action), and the entry in the history of the transport.
McpToolCall(token, header, toolName) ==
    LET req == [token |-> token, sessionId |-> header, tool |-> toolName]
        r == ValidateResult(token, <<>>)
        scope == IF token \in DOMAIN tokens THEN tokens[token].scope ELSE <<>>
        sessionId == ResolveSessionId(header)
        isNewSession == ~ExistingSession(header)
        created == createAndConnectTransport(sessionId, token, r.client_id)
        after == IF isNewSession THEN created.transports
                 ELSE [transports EXCEPT ![sessionId].lastActivity = now]
        runs == ToolKnown(toolName)
                    /\ checkScopes(scope, <<ToolScope(toolName)>>)
    IN  /\ Idle
        /\ HeaderPossible(header)
        /\ requests < MaxRequests
        /\ requests' = requests + 1
        /\ IF token = 0
           THEN /\ resp' = Respond("mcp", req, 401, "unauthorized",
                                   "Bearer token required", 0, "")
                /\ UNCHANGED <<tokens, transports, pendingTransports,
                               nextSession, hist>>
           ELSE IF ~Authenticated(r)
           THEN /\ tokens' = ValidateStore(token)
                /\ resp' = Respond("mcp", req, 401, r.error, r.desc, 0, "")
                /\ UNCHANGED <<transports, pendingTransports, nextSession,
                               hist>>
           ELSE /\ tokens' = ValidateStore(token)
                /\ isNewSession => nextSession <= MaxSessions
                /\ nextSession' = IF isNewSession THEN nextSession + 1
                                  ELSE nextSession
                /\ pendingTransports' = IF isNewSession
                                        THEN created.pendingTransports
                                        ELSE pendingTransports
                /\ transports' =
                       IF runs
                       THEN [after EXCEPT ![sessionId].conversationHistory =
                                              addToHistory(@)]
                       ELSE after
                /\ resp' = IF ~ToolKnown(toolName)
                           THEN Respond("mcp", req, 400, "Method not found",
                                        "Unknown tool", sessionId, "")
                           ELSE IF ~runs
                           THEN Respond("mcp", req, 403, "Insufficient scope",
                                        "", sessionId, "")
                           ELSE Respond("mcp", req, 200, "", "executed",
                                        sessionId, "")
                /\ hist' =
                       [hist EXCEPT
                          !.served =
                              IF header # 0 /\ isNewSession
                              THEN MapSet(@, header,
                                          (IF header \in DOMAIN @
                                           THEN @[header] ELSE {})
                                              \cup {sessionId})
                              ELSE @,
                          !.executed =
                              IF runs
                              THEN @ \cup {token}
                              ELSE @]
        /\ UNCHANGED <<now, ticks, clients, clientsLoaded, storageFile,
                       pendingWrites, authCodes, nextClient, nextCode,
                       nextToken, restarts>>
        /\ UNCHANGED <<managerVars, processVars>>

\* transport.onclose of the transport of sessionId, as [transports,
\* pendingTransports] after it.
onclose(sessionId) ==
    [transports |-> MapDelete(transports, sessionId),
     pendingTransports |-> pendingTransports \ {sessionId}]

\* app.delete('/mcp/session/:sessionId')
DeleteSession(sessionId) ==
    LET req == [sessionId |-> sessionId]
        cleaned == sessionId \in DOMAIN transports
                       \/ sessionId \in pendingTransports
        closed == IF sessionId \in DOMAIN transports THEN onclose(sessionId)
                  ELSE [transports |-> transports,
                        pendingTransports |-> pendingTransports]
    IN  /\ Idle
        /\ transports' = closed.transports
        /\ pendingTransports' = closed.pendingTransports \ {sessionId}
        /\ resp' = IF cleaned
                   THEN Respond("deleteSession", req, 200, "", "", sessionId, "")
                   ELSE Respond("deleteSession", req, 404, "", "", 0, "")
        /\ UNCHANGED <<now, ticks, clients, clientsLoaded, storageFile,
                       pendingWrites, authCodes, tokens, nextClient, nextCode,
                       nextToken, restarts, hist, nextSession, requests>>
        /\ UNCHANGED <<managerVars, processVars>>

\* now - transport.lastActivity.getTime() > staleThreshold
Stale_Never(transport) == FALSE

Stale(transport) == now - transport.lastActivity > staleThreshold

\* The setInterval callback of interfaces.ts (every 15 minutes): stale
\* transports are closed, and ids in pendingTransports without a transport
\* are taken out.
SessionSweep ==
    LET kept == {id \in DOMAIN transports : ~Stale(transports[id])}
    IN  /\ Idle
        /\ transports' = [id \in kept |-> transports[id]]
        /\ pendingTransports' = {id \in pendingTransports : id \in kept}
        /\ UNCHANGED <<now, ticks, clients, clientsLoaded, storageFile,
                       pendingWrites, authCodes, tokens, nextClient, nextCode,
                       nextToken, restarts, resp, hist, nextSession, requests>>
        /\ UNCHANGED <<managerVars, processVars>>

\* ---------------------------------------------------------------- the inputs
ClientIds == 0..(MaxClients + 1)
CodeValues == 0..(MaxCodes + 1)
TokenValues == (-1)..(MaxTokens + 1)

ChallengeA == S256(VerifierA)
ChallengeMixed == S256(VerifierMixed)

RegBody(name, kind, items) ==
    [client_name |-> name, redirect_uris |-> [kind |-> kind, items |-> items]]

RegBodyGood == RegBody("T", "array", <<UriHttps, UriLocal>>)

RegBodies ==
    {RegBodyGood,
     RegBody("", "array", <<UriHttps>>),
     RegBody("T", "missing", <<>>),
     RegBody("T", "string", <<>>),
     RegBody("T", "array", <<UriHttps, UriPlain, UriMalformed>>),
     RegBody("T", "array", <<UriMalformed, UriPlain>>),
     RegBody("T", "array", <<UriLocal, UriPlain>>)}

\* The same with a list of redirect targets that is an array and is empty.
RegBodiesAll == RegBodies \cup {RegBody("T", "array", <<>>)}

\* How many fields of a request differ from those of another.
Differing(r, base) == Cardinality({f \in DOMAIN base : r[f] # base[f]})

AuthorizeBase(client_id) ==
    [client_id |-> client_id, response_type |-> "code",
     redirect_uri |-> UriHttps, code_challenge |-> ChallengeA,
     code_challenge_method |-> "S256"]

\* The authorization requests tried: a well-formed request of each client,
\* and every request that differs from one in a single parameter.
AuthorizeReqs ==
    {r \in [client_id : ClientIds,
            response_type : {"", "code", "token"},
            redirect_uri : {"", UriHttps, UriHttpsB},
            code_challenge : {0, ChallengeA, ChallengeMixed},
            code_challenge_method : {"", "S256", "plain"}] :
        Differing(r, AuthorizeBase(r.client_id)) <= 1}

\* Every authorization request over the same parameter values: requests
\* that fail several checks at once are among them.
AuthorizeReqsAll ==
    [client_id : ClientIds,
     response_type : {"", "code", "token"},
     redirect_uri : {"", UriHttps, UriHttpsB},
     code_challenge : {0, ChallengeA, ChallengeMixed},
     code_challenge_method : {"", "S256", "plain"}]

ExchangeBase(code) ==
    [grant_type |-> "authorization_code", code |-> code,
     redirect_uri |-> UriHttps, client_id |-> 1, code_verifier |-> VerifierA]

\* The token requests tried: for each code the exchange request that fits
\* a code of client 1, every request that differs from it in one parameter,
\* and requests that name no grant type or an unsupported one.
TokenReqs ==
    {r \in [grant_type : {"authorization_code"},
            code : CodeValues,
            redirect_uri : {"", UriHttps, UriLocal},
            client_id : ClientIds,
            code_verifier : Verifiers \cup {<<>>}] :
        Differing(r, ExchangeBase(r.code)) <= 1}
    \cup
    [grant_type : {"", "password"},
     code : {0},
     redirect_uri : {""},
     client_id : ClientIds,
     code_verifier : {<<>>}]

RequiredScopes == {<<>>, <<ScopeTasksRead>>, <<ScopeTasksRead, ScopeCalendarWrite>>}

TickSteps == {1, CODE_TTL_MS, TOKEN_TTL_MS}

\* ------------------------------------------------------- the specification
vars ==
    <<now, ticks, clients, clientsLoaded, storageFile, pendingWrites,
      authCodes, tokens, nextClient, nextCode, nextToken, restarts, resp,
      hist, transports, pendingTransports, nextSession, requests,
      sessions, pendingSessions, suspended, calls, exited>>

\* The authorization protocol within one run of the process, for the
\* clients the storage file holds at startup.
Next ==
    \/ \E req \in AuthorizeReqs : Authorize(req)
    \/ \E req \in TokenReqs : Token(req)
    \/ \E token \in TokenValues, scope \in RequiredScopes :
          ValidateToken(token, scope)
    \/ \E token \in TokenValues : Introspect(token)
    \/ \E token \in TokenValues : Revoke(token)
    \/ CleanupExpired
    \/ \E d \in TickSteps : Tick(d)
    \/ Return

Spec == Init /\ [][Next]_vars

\* ------------------------------------------------ the token-endpoint claims
\* This step is the handler op answering the request resp'.req.
Answers(op) == Idle /\ resp'.op = op

\* An exchange attempt: an authorization_code request that carries a code,
\* a client_id, a redirect target and a verifier.
ExchangeAttempt(req) ==
    /\ req.grant_type = "authorization_code"
    /\ req.client_id # 0
    /\ req.code # 0
    /\ req.redirect_uri # ""
    /\ req.code_verifier # <<>>

\* The response refuses the request and no token was stored.
Refused(error) ==
    /\ resp'.status = 400
    /\ resp'.error = error
    /\ tokens' = tokens
    /\ nextToken' = nextToken

\* The response carries a token that this step stored.
Granted ==
    /\ resp'.status = 200
    /\ resp'.out \notin DOMAIN tokens
    /\ resp'.out \in DOMAIN tokens'

\* The codes a token has been minted from.
ExchangedCodes == {hist.minted[t].code : t \in DOMAIN hist.minted} \ {0}

\* C1: an authorization code is exchanged at most once.  Once a token has
\* been minted from a code, every later exchange attempt with that code,
\* whatever client_id, redirect target and verifier it carries, is answered
\* invalid_grant and stores no token; and no two tokens are ever minted from
\* the same code.
C1_CodeExchangedAtMostOnce ==
    /\ [][(/\ Answers("token")
           /\ ExchangeAttempt(resp'.req)
           /\ resp'.req.code \in ExchangedCodes)
              => Refused("invalid_grant")]_vars
    /\ [](\A t1, t2 \in DOMAIN hist.minted :
            (hist.minted[t1].code = hist.minted[t2].code
             /\ hist.minted[t1].code # 0) => t1 = t2)

\* A replay of an exchanged code, with the parameters that fit the code,
\* has been answered invalid_grant.
C1_Witness ==
    /\ resp.op = "token"
    /\ resp.req = ExchangeBase(resp.req.code)
    /\ resp.req.code \in ExchangedCodes
    /\ resp.error = "invalid_grant"

\* The code of the request is in the store and not past its expiry.
LiveCode(req) ==
    /\ req.code \in DOMAIN authCodes
    /\ ~(now > authCodes[req.code].expires_at)

\* The request carries the client_id and redirect target bound to its code.
BoundParams(req) ==
    /\ authCodes[req.code].client_id = req.client_id
    /\ authCodes[req.code].redirect_uri = req.redirect_uri

WellFormed(code_verifier) ==
    VerifierLengthOk(code_verifier) /\ VerifierCharsOk(code_verifier)

\* C2: PKCE.  For a live code presented with its bound client_id and
\* redirect target and a well-formed verifier, the exchange succeeds exactly
\* when S256(verifier) equals the challenge stored with the code, and a
\* mismatch is answered invalid_grant without a token.
C2_PkceIff ==
    [][(/\ Answers("token")
        /\ ExchangeAttempt(resp'.req)
        /\ LiveCode(resp'.req)
        /\ BoundParams(resp'.req)
        /\ WellFormed(resp'.req.code_verifier))
           => IF S256(resp'.req.code_verifier)
                    = authCodes[resp'.req.code].code_challenge
              THEN Granted
              ELSE Refused("invalid_grant")]_vars

\* A well-formed verifier that does not hash to the challenge of a live
\* code has been refused, and the code is still in the store.
C2_Witness ==
    /\ resp.op = "token"
    /\ resp.error = "invalid_grant"
    /\ ExchangeAttempt(resp.req)
    /\ LiveCode(resp.req)
    /\ BoundParams(resp.req)
    /\ WellFormed(resp.req.code_verifier)
    /\ S256(resp.req.code_verifier) # authCodes[resp.req.code].code_challenge

\* C3: a token exchange whose client_id or redirect target differs from the
\* one bound to a live code is answered invalid_grant and stores no token,
\* whatever verifier it carries.
C3_BindingMismatchRefused ==
    [][(/\ Answers("token")
        /\ ExchangeAttempt(resp'.req)
        /\ LiveCode(resp'.req)
        /\ ~BoundParams(resp'.req))
           => Refused("invalid_grant")]_vars

\* A request with the right verifier for a live code, but with another
\* redirect target than the code's, has been refused.
C3_Witness ==
    /\ resp.op = "token"
    /\ resp.error = "invalid_grant"
    /\ ExchangeAttempt(resp.req)
    /\ LiveCode(resp.req)
    /\ authCodes[resp.req.code].client_id = resp.req.client_id
    /\ authCodes[resp.req.code].redirect_uri # resp.req.redirect_uri
    /\ S256(resp.req.code_verifier) = authCodes[resp.req.code].code_challenge

\* C4: expiry.  A code presented in an exchange attempt more than 10
\* minutes after authorize issued it is answered invalid_grant and yields no
\* token, and a token presented to validateToken more than 1 hour after it
\* was minted is answered invalid_token, whether cleanupExpired has run in
\* between or not.
C4_ExpiredRefused ==
    /\ [][(/\ Answers("token")
           /\ ExchangeAttempt(resp'.req)
           /\ resp'.req.code \in DOMAIN hist.codes
           /\ now > hist.codes[resp'.req.code] + CODE_TTL_MS)
              => Refused("invalid_grant")]_vars
    /\ [][(/\ Answers("validate")
           /\ resp'.req.token \in DOMAIN hist.minted
           /\ now > hist.minted[resp'.req.token].issued_at + TOKEN_TTL_MS)
              => (resp'.status = 401 /\ resp'.error = "invalid_token")]_vars

\* A code that the sweep has not removed has been presented, with the
\* parameters that fit it, after its 10 minutes and has been refused.
C4_Witness ==
    /\ resp.op = "token"
    /\ resp.req = ExchangeBase(resp.req.code)
    /\ resp.req.code \in DOMAIN hist.codes
    /\ now > hist.codes[resp.req.code] + CODE_TTL_MS
    /\ resp.desc = "Authorization code expired"
    /\ resp.error = "invalid_grant"

\* C5: revoke answers success for a token in the store, for an unknown token
\* and for an already revoked token alike; and once revoke has removed a
\* token from the store, every validateToken of it is answered invalid_token
\* and every introspect of it {active: false}.
C5_RevokeIdempotentImmediate ==
    /\ [][(Answers("revoke") /\ resp'.req.token # 0)
              => resp'.status = 200]_vars
    /\ [][(Answers("validate") /\ resp'.req.token \in hist.revoked)
              => (resp'.status = 401 /\ resp'.error = "invalid_token")]_vars
    /\ [][(Answers("introspect") /\ resp'.req.token \in hist.revoked)
              => (resp'.status = 200 /\ resp'.desc = "inactive")]_vars

\* A token that was valid when revoke removed it, and would still be within
\* its hour, has been presented to validateToken and refused.
C5_Witness ==
    /\ resp.op = "validate"
    /\ resp.req.token \in hist.revoked
    /\ ~(now > hist.minted[resp.req.token].issued_at + TOKEN_TTL_MS)
    /\ resp.error = "invalid_token"

\* C6: introspect answers 200 for every token value supplied, and
\* {active: true} exactly when the token is in the Token Store and not past
\* its expiry; an unknown, expired or revoked token gets {active: false}.
C6_IntrospectNeverFails ==
    [][(Answers("introspect") /\ resp'.req.token # 0)
          => /\ resp'.status = 200
             /\ resp'.error = ""
             /\ resp'.desc \in {"active", "inactive"}
             /\ resp'.desc = "active" <=>
                   /\ resp'.req.token \in DOMAIN tokens
                   /\ ~(now > tokens[resp'.req.token].expires_at)]_vars

\* An expired token that is still in the store has been introspected and
\* reported inactive.
C6_Witness ==
    /\ resp.op = "introspect"
    /\ resp.req.token \in DOMAIN tokens
    /\ now > tokens[resp.req.token].expires_at
    /\ resp.status = 200
    /\ resp.desc = "inactive"

\* ------------------------------------------------- the client registry
\* Registrations, the writes of the registry file, restarts of the process,
\* and the two operations that look a client up: authorize and the
\* client_credentials grant.
ClientCredentials(client_id) ==
    [grant_type |-> "client_credentials", code |-> 0, redirect_uri |-> "",
     client_id |-> client_id, code_verifier |-> <<>>]

\* The requests of the clients that look themselves up: one authorization
\* request and one client_credentials request per client identifier.
ClientCredentialsReqs ==
    {ClientCredentials(client_id) : client_id \in ClientIds}

AuthorizeBaseReqs == {AuthorizeBase(client_id) : client_id \in ClientIds}

\* The token requests that carry no code: no grant type, an unsupported
\* one, and client_credentials, for every client identifier.
TokenReqsNoCode ==
    [grant_type : {"", "password", "client_credentials"},
     code : {0},
     redirect_uri : {""},
     client_id : ClientIds,
     code_verifier : {<<>>}]

NextReg ==
    \/ \E body \in RegBodies : RegisterClient(body)
    \/ \E w \in pendingWrites, outcome \in WriteOutcomes :
          WriteComplete(w, outcome)
    \/ Restart
    \/ \E req \in AuthorizeBaseReqs : Authorize(req)
    \/ \E req \in TokenReqsNoCode : Token(req)
    \/ Return

SpecReg == Init /\ [][NextReg]_vars

\* C8: when the write of the registry file fails, registerClient does not
\* answer success with the client_id of the client that was not saved.
C8_WriteFailureFailsCall ==
    (resp.op = "register" /\ resp.status = 200)
        => resp.out \notin hist.writeFailed

\* C9: after a restart, authorize and the client_credentials grant find
\* every client whose registration was answered with success.
C9_RegistrationSurvivesRestart ==
    (/\ restarts > 0
     /\ resp.op \in {"authorize", "token"}
     /\ resp.req.client_id \in hist.regReturned)
        => resp.error # "invalid_client"

\* C10: when every registration has returned and no write has failed, the
\* registry file holds every client a registration has returned.
C10_ConcurrentRegistrationsAllSaved ==
    (pendingWrites = {} /\ restarts = 0 /\ hist.writeFailed = {})
        => \A client_id \in hist.regReturned :
              /\ storageFile.state = "ok"
              /\ client_id \in DOMAIN storageFile.data

\* ------------------------------------------- the checks of registerClient
\* Every registration body, the empty list of redirect targets included;
\* authorize is what reads the registry back after a restart.
NextRegister ==
    \/ \E body \in RegBodiesAll : RegisterClient(body)
    \/ \E w \in pendingWrites, outcome \in WriteOutcomes :
          WriteComplete(w, outcome)
    \/ Restart
    \/ \E req \in AuthorizeBaseReqs : Authorize(req)
    \/ Return

SpecRegister == Init /\ [][NextRegister]_vars

\* What a registration must not let through: a display name that is
\* missing or empty, a list of redirect targets that is missing, not a list
\* or empty, and a redirect target that does not parse or is neither HTTPS
\* nor loopback.
RegInvalidRequest(body) ==
    \/ body.client_name = ""
    \/ body.redirect_uris.kind # "array"
    \/ body.redirect_uris.items = <<>>

HttpsOrLoopback(uri) ==
    /\ UrlParses(uri)
    /\ \/ UrlProtocol(uri) = "https:"
       \/ UrlHostname(uri) \in {"localhost", "127.0.0.1"}

FirstOffendingUri(items) ==
    LET bad == {i \in 1..Len(items) : ~HttpsOrLoopback(items[i])}
    IN  IF bad = {} THEN 0 ELSE CHOOSE i \in bad : \A j \in bad : i <= j

\* C11: register answers invalid_request to a request whose display name
\* is missing or empty or whose redirect-target list is missing, not a list
\* or empty, and invalid_redirect_uri naming the first offending URI to a
\* request with a malformed or neither-HTTPS-nor-loopback URI; no client is
\* ever created from such a request.
C11_RegisterRejectsBadRequests ==
    /\ \A client_id \in DOMAIN hist.registered :
          LET client == hist.registered[client_id]
          IN  /\ client.client_name # ""
              /\ client.redirect_uris # <<>>
              /\ FirstOffendingUri(client.redirect_uris) = 0
    /\ resp.op = "register" =>
          LET items == resp.req.redirect_uris.items
          IN  IF RegInvalidRequest(resp.req)
              THEN resp.status = 400 /\ resp.error = "invalid_request"
              ELSE IF FirstOffendingUri(items) # 0
              THEN /\ resp.status = 400
                   /\ resp.error = "invalid_redirect_uri"
                   /\ resp.uri = items[FirstOffendingUri(items)]
              ELSE resp.status = 200

\* C12: every redirect target of every client in the registry is an HTTPS
\* or a loopback URI, and every client in the registry, whether registered
\* in this run or loaded from the file, has the id, the name and the
\* redirect targets it was registered with.
C12_ClientsValidAndImmutable ==
    \A client_id \in DOMAIN clients :
        /\ \A i \in 1..Len(clients[client_id].redirect_uris) :
              HttpsOrLoopback(clients[client_id].redirect_uris[i])
        /\ clients[client_id].client_id = client_id
        /\ client_id \in DOMAIN hist.registered
        /\ clients[client_id] = hist.registered[client_id]

\* Two clients, one of them registered in this history, read back from the
\* file after a restart.
C12_Witness ==
    /\ restarts > 0
    /\ clientsLoaded
    /\ Cardinality(DOMAIN clients) >= 2
    /\ \E client_id \in DOMAIN clients :
          Len(clients[client_id].redirect_uris) > 0

\* C14: token answers invalid_request when grant_type or client_id is
\* missing, otherwise unsupported_grant_type when the grant type is not
\* recognized; a client_credentials request mints a token exactly when its
\* client_id is in the registry, and is otherwise answered invalid_client
\* with the token store unchanged.
C14_TokenCommonChecks ==
    [][Answers("token") =>
        LET req == resp'.req
            missing == req.grant_type = "" \/ req.client_id = 0
            recognized == req.grant_type \in
                              {"authorization_code", "client_credentials"}
        IN  /\ missing =>
                  /\ resp'.status = 400
                  /\ resp'.error = "invalid_request"
                  /\ tokens' = tokens
            /\ (~missing /\ ~recognized) =>
                  /\ resp'.status = 400
                  /\ resp'.error = "unsupported_grant_type"
                  /\ tokens' = tokens
            /\ (~missing /\ req.grant_type = "client_credentials") =>
                  IF req.client_id \in DOMAIN clients'
                  THEN /\ resp'.status = 200
                       /\ resp'.out \notin DOMAIN tokens
                       /\ DOMAIN tokens' = DOMAIN tokens \cup {resp'.out}
                       /\ tokens'[resp'.out].client_id = req.client_id
                  ELSE /\ resp'.status = 400
                       /\ resp'.error = "invalid_client"
                       /\ tokens' = tokens]_vars

\* A client_credentials request of an unregistered client has been refused
\* after one of a registered client was granted a token.
C14_Witness ==
    /\ resp.op = "token"
    /\ resp.req.grant_type = "client_credentials"
    /\ resp.error = "invalid_client"
    /\ tokens # EmptyMap
    /\ clients # EmptyMap

\* -------------------------------------------------------- validateScopes
\* validateScopes as a function of its two arguments: every granted scope
\* string below against every required scope, whatever the tokens in the
\* store carry.  'tasks' and 'calendar' are the bare resource grants.
ScopeTasks == <<"tasks">>
ScopeCalendar == <<"calendar">>

GrantedScopes ==
    {<<>>, DefaultScope, <<ScopeMcp>>, <<ScopeTasksRead>>, <<ScopeTasksWrite>>,
     <<ScopeCalendarRead>>, <<ScopeTasks>>, <<ScopeCalendar>>,
     <<ScopeTasksRead, ScopeCalendarWrite>>}

RequiredScopesAll ==
    {<<>>, <<ScopeTasksRead>>, <<ScopeTasksWrite>>, <<ScopeCalendarRead>>,
     <<ScopeCalendarWrite>>, <<ScopeTasksRead, ScopeCalendarWrite>>,
     <<ScopeTasksRead, ScopeCalendarRead>>}

\* this.validateScopes(grantedScope, requiredScope), and what it returned.
ValidateScopesCall(grantedScope, requiredScope) ==
    /\ Idle
    /\ resp' = Respond("validateScopes",
                       [granted |-> grantedScope, required |-> requiredScope],
                       0, "",
                       IF validateScopes(grantedScope, requiredScope)
                       THEN "valid" ELSE "invalid",
                       0, "")
    /\ UNCHANGED <<now, ticks, clients, clientsLoaded, storageFile,
                   pendingWrites, authCodes, tokens, nextClient, nextCode,
                   nextToken, restarts, hist>>
    /\ UNCHANGED sessionVars

NextScopes ==
    \/ \E grantedScope \in GrantedScopes, requiredScope \in RequiredScopesAll :
          ValidateScopesCall(grantedScope, requiredScope)
    \/ Return

SpecScopes == Init /\ [][NextScopes]_vars

\* The scope satisfaction rule: the universal scope satisfies anything;
\* otherwise every required scope is granted directly, or is a resource:read
\* with resource:write granted, or is a resource:read or resource:write
\* with the bare resource granted.
Satisfies(grantedScope, requiredScope) ==
    \/ SeqIncludes(grantedScope, ScopeMcp)
    \/ \A i \in 1..Len(requiredScope) :
          LET scope == requiredScope[i]
          IN  \/ SeqIncludes(grantedScope, scope)
              \/ /\ Len(scope) = 2
                 /\ scope[2] = "read"
                 /\ SeqIncludes(grantedScope, <<scope[1], "write">>)
              \/ /\ Len(scope) = 2
                 /\ scope[2] \in {"read", "write"}
                 /\ SeqIncludes(grantedScope, <<scope[1]>>)

C16_ValidateSteps ==
    [][Answers("validate") =>
        LET token == resp'.req.token
            required == resp'.req.requiredScope
            stored == token \in DOMAIN tokens
            expired == now > tokens[token].expires_at
            scopeOk == Satisfies(tokens[token].scope, required)
        IN  /\ ~stored =>
                  /\ resp'.status = 401
                  /\ resp'.error = "invalid_token"
                  /\ tokens' = tokens
            /\ (stored /\ expired) =>
                  /\ resp'.status = 401
                  /\ resp'.error = "invalid_token"
                  /\ DOMAIN tokens' = DOMAIN tokens \ {token}
                  /\ \A t \in DOMAIN tokens' : tokens'[t] = tokens[t]
            /\ (stored /\ ~expired /\ ~scopeOk) =>
                  /\ resp'.status = 401
                  /\ resp'.error = "insufficient_scope"
                  /\ token \in DOMAIN tokens'
            /\ (stored /\ ~expired /\ scopeOk) =>
                  /\ resp'.status = 200
                  /\ resp'.error = ""
                  /\ resp'.out = tokens[token].client_id
                  /\ tokens' = [tokens EXCEPT ![token].last_used = now]]_vars

\* An expired token has been presented again after a successful validation
\* moved its last_used: it is rejected and gone from the store.
C16_Witness ==
    /\ resp.op = "validate"
    /\ resp.error = "invalid_token"
    /\ resp.desc = "Access token expired"
    /\ resp.req.token \in DOMAIN hist.minted
    /\ resp.req.token \notin DOMAIN tokens
    /\ resp.req.token \notin hist.revoked

\* ------------------------------------------------ the checks of authorize
\* Every authorization request, against the registry the file holds at
\* startup, while the clock advances and expired codes are swept.
NextAuthorize ==
    \/ \E req \in AuthorizeReqsAll : Authorize(req)
    \/ CleanupExpired
    \/ \E d \in TickSteps : Tick(d)
    \/ Return

SpecAuthorize == Init /\ [][NextAuthorize]_vars

\* C13: authorize answers with the error of the first check that fails, in
\* the order: a missing required parameter (invalid_request), a
\* response_type other than 'code' (unsupported_response_type), a
\* code_challenge_method other than 'S256' (invalid_request), an
\* unregistered client_id (invalid_client), a redirect target that is none
\* of the client's registered targets (invalid_redirect_uri); a rejected
\* request leaves the authorization code store as it was.
C13_AuthorizeCheckOrder ==
    [][Answers("authorize") =>
        LET req == resp'.req
            missing == \/ req.client_id = 0
                       \/ req.response_type = ""
                       \/ req.redirect_uri = ""
                       \/ req.code_challenge = 0
                       \/ req.code_challenge_method = ""
            badType == req.response_type # "code"
            badMethod == req.code_challenge_method # "S256"
            unknown == req.client_id \notin DOMAIN clients'
            badTarget == \A i \in 1..Len(clients'[req.client_id].redirect_uris) :
                            clients'[req.client_id].redirect_uris[i]
                                # req.redirect_uri
        IN  /\ missing => resp'.error = "invalid_request"
            /\ (~missing /\ badType) =>
                  resp'.error = "unsupported_response_type"
            /\ (~missing /\ ~badType /\ badMethod) =>
                  resp'.error = "invalid_request"
            /\ (~missing /\ ~badType /\ ~badMethod /\ unknown) =>
                  resp'.error = "invalid_client"
            /\ (~missing /\ ~badType /\ ~badMethod /\ ~unknown /\ badTarget) =>
                  resp'.error = "invalid_redirect_uri"
            /\ (~missing /\ ~badType /\ ~badMethod /\ ~unknown /\ ~badTarget) =>
                  /\ resp'.error = ""
                  /\ resp'.status = 302
                  /\ resp'.out \in DOMAIN authCodes' \ DOMAIN authCodes
            /\ resp'.error # "" =>
                  /\ resp'.status = 400
                  /\ authCodes' = authCodes]_vars

\* A request that fails three checks at once (response_type, method and
\* client) has been answered with the error of the first of them.
C13_Witness ==
    /\ resp.op = "authorize"
    /\ resp.req.response_type = "token"
    /\ resp.req.code_challenge_method = "plain"
    /\ resp.req.client_id \notin DOMAIN clients
    /\ resp.req.client_id # 0
    /\ resp.req.redirect_uri # ""
    /\ resp.req.code_challenge # 0
    /\ resp.error = "unsupported_response_type"
    /\ authCodes # EmptyMap

\* ------------------------------------------------------- the /mcp sessions
\* Clients that hold tokens of the client_credentials grant call /mcp, with
\* and without a session id; sessions are deleted and swept.  The clock
\* advances by the least time that makes an untouched session stale.
SessionIdHeaders == 0..ClientMadeSessionId
SessionTickSteps == {staleThreshold + 1}

NextMcp ==
    \/ \E req \in ClientCredentialsReqs : Token(req)
    \/ \E token \in TokenValues, header \in SessionIdHeaders :
          McpRequest(token, header)
    \/ \E sessionId \in SessionIdHeaders : DeleteSession(sessionId)
    \/ SessionSweep
    \/ \E d \in SessionTickSteps : Tick(d)
    \/ Return

SpecMcp == Init /\ [][NextMcp]_vars

\* C7: the requests that carry the same session id while no session of
\* that id is active are all given one and the same session: no second
\* session is created for them.
C7_OneSessionPerNewId ==
    \A header \in DOMAIN hist.served : Cardinality(hist.served[header]) <= 1

\* ---------------------------------------------------------- the tool layer
\* Clients with tokens of the client_credentials grant call tools through
\* /mcp, with tokens that are missing, malformed, unknown, live, expired
\* and revoked, without a session id and with the id of the first session.
ToolSessionHeaders == {0, 1}

NextTools ==
    \/ \E req \in ClientCredentialsReqs : Token(req)
    \/ \E token \in TokenValues, header \in ToolSessionHeaders,
          toolName \in ToolNames :
          McpToolCall(token, header, toolName)
    \/ \E token \in TokenValues : Revoke(token)
    \/ \E d \in SessionTickSteps : Tick(d)
    \/ Return

SpecTools == Init /\ [][NextTools]_vars

\* C17: a /mcp request runs a tool action only when its bearer token is in
\* the store and not expired at that request and the token's scope
\* satisfies the scope the tool requires; a request whose token is missing,
\* unknown, expired or revoked is answered 401, runs no tool action and
\* creates no session.
C17_NoToolWithoutValidation ==
    [][Answers("mcp") =>
        LET token == resp'.req.token
            live == /\ token \in DOMAIN tokens
                    /\ ~(now > tokens[token].expires_at)
            ran == resp'.desc = "executed"
        IN  /\ ran =>
                  /\ live
                  /\ token \in DOMAIN hist.minted
                  /\ token \notin hist.revoked
                  /\ Satisfies(tokens[token].scope,
                               <<ToolScope(resp'.req.tool)>>)
            /\ hist'.executed =
                  IF ran THEN hist.executed \cup {token} ELSE hist.executed
            /\ ~live =>
                  /\ resp'.status = 401
                  /\ ~ran
                  /\ DOMAIN transports' = DOMAIN transports
                  /\ pendingTransports' = pendingTransports
                  /\ nextSession' = nextSession]_vars

\* A token that ran a tool has been revoked, and the next tool call with
\* it was refused.
C17_Witness ==
    /\ resp.op = "mcp"
    /\ resp.status = 401
    /\ resp.req.token \in hist.revoked
    /\ resp.req.token \in hist.executed

-----------------------------------------------------------------------------
\* SessionManager (session/SessionManager.ts): the session coordinator.
\* getOrCreateSession is an async function: it runs up to its await in the
\* caller's turn, and its continuation runs later, in the order the awaits
\* were reached (every awaited promise is already settled, createSession
\* has no await of its own).

ManagerSessionIds == 1 .. MaxSessions

\* createSession builds the SessionState from the request; it rejects when
\* req is not an express Request (req.get is not a function).
createSession(sessionId, reqOk, call) ==
    [by |-> call,
     state |-> IF reqOk THEN "resolved" ELSE "rejected",
     session |-> [id |-> sessionId, by |-> call, lastActivity |-> now,
                  conversationHistory |-> <<>>, createdAt |-> now]]

HasSession_Never(sessionId) == FALSE

HasSession(sessionId) == sessionId \in DOMAIN sessions

HasPending_Never(sessionId) == FALSE

HasPending(sessionId) == sessionId \in DOMAIN pendingSessions

LimitReached == Cardinality(DOMAIN sessions) >= maxSessions

updateActivity(sessionId) ==
    IF sessionId \in DOMAIN sessions
    THEN [sessions EXCEPT ![sessionId].lastActivity = now]
    ELSE sessions

ManagerCall(call, sessionId, kind) ==
    [call |-> call, sessionId |-> sessionId, kind |-> kind]

\* The part of getOrCreateSession that runs in the caller's turn.
GetOrCreateSession(sessionId, reqOk) ==
    LET call == calls + 1
    IN  /\ Idle
        /\ calls < MaxCalls
        /\ calls' = call
        /\ IF HasSession(sessionId)
           THEN /\ sessions' = updateActivity(sessionId)
                /\ resp' = Respond("getOrCreateSession",
                                   ManagerCall(call, sessionId, "existing"),
                                   200, "", "existing", call, "")
                /\ UNCHANGED <<pendingSessions, suspended>>
           ELSE IF HasPending(sessionId)
           THEN /\ suspended' =
                       Append(suspended,
                              [call |-> call, sessionId |-> sessionId,
                               kind |-> "waiter",
                               promise |-> pendingSessions[sessionId]])
                /\ UNCHANGED <<sessions, pendingSessions, resp>>
           ELSE IF LimitReached
           THEN /\ resp' = Respond("getOrCreateSession",
                                   ManagerCall(call, sessionId, "limit"),
                                   500, "Maximum sessions exceeded", "limit",
                                   call, "")
                /\ UNCHANGED <<sessions, pendingSessions, suspended>>
           ELSE LET sessionPromise == createSession(sessionId, reqOk, call)
                IN  /\ pendingSessions' =
                           MapSet(pendingSessions, sessionId, sessionPromise)
                    /\ suspended' =
                           Append(suspended,
                                  [call |-> call, sessionId |-> sessionId,
                                   kind |-> "creator",
                                   promise |-> sessionPromise])
                    /\ UNCHANGED <<sessions, resp>>
        /\ UNCHANGED <<now, ticks, clients, clientsLoaded, storageFile,
                       pendingWrites, authCodes, tokens, nextClient, nextCode,
                       nextToken, restarts, hist, transports,
                       pendingTransports, nextSession, requests, exited>>

\* The catch block of getOrCreateSession.
CatchCleanup_Keep(pending, sessionId) == pending

CatchCleanup(pending, sessionId) == MapDelete(pending, sessionId)

Settled_Never(promise) == FALSE

\* await promise: the continuation is queued once the promise is settled.
Settled(promise) == promise.state \in {"resolved", "rejected"}

\* The continuation of the oldest suspended call: the creator publishes the
\* session or cleans up and rethrows, a waiter returns or rethrows what the
\* promise it awaited settled to.
ResumeCall ==
    /\ Idle
    /\ suspended # <<>>
    /\ Settled(Head(suspended).promise)
    /\ LET c == Head(suspended)
           ok == c.promise.state = "resolved"
           creator == c.kind = "creator"
       IN  /\ suspended' = Tail(suspended)
           /\ pendingSessions' =
                  IF ~creator THEN pendingSessions
                  ELSE IF ok THEN MapDelete(pendingSessions, c.sessionId)
                  ELSE CatchCleanup(pendingSessions, c.sessionId)
           /\ sessions' =
                  IF creator /\ ok
                  THEN MapSet(sessions, c.sessionId, c.promise.session)
                  ELSE sessions
           /\ resp' =
                  IF ok
                  THEN Respond("getOrCreateSession",
                               ManagerCall(c.call, c.sessionId, c.kind),
                               200, "", c.kind, c.call, "")
                  ELSE Respond("getOrCreateSession",
                               ManagerCall(c.call, c.sessionId, c.kind),
                               500, "createSession failed", c.kind, c.call,
                               "")
           /\ hist' = IF creator /\ ~ok
                      THEN [hist EXCEPT !.failed = @ \cup {c.sessionId}]
                      ELSE hist
    /\ UNCHANGED <<now, ticks, clients, clientsLoaded, storageFile,
                   pendingWrites, authCodes, tokens, nextClient, nextCode,
                   nextToken, restarts, transports, pendingTransports,
                   nextSession, requests, calls, exited>>

\* destroySession on a set of ids: each session found has its transport's
\* onclose run (which re-enters destroySession until the stack overflows,
\* the RangeError being caught) and is then deleted from the map.
Destroyed(ids) == {id \in ids : id \in DOMAIN sessions}

Closed(ids) == {sessions[id].by : id \in Destroyed(ids)}

\* How many times transport.onclose runs when destroySession, entered with
\* room for free more calls, finds the session: the call of onclose and its
\* call of destroySession take a frame each, destroySession finds the
\* session still in the map (it is deleted after the hook returns) and calls
\* onclose again, until a call no longer fits: the RangeError is caught by
\* the try around the nearest onclose call and all the frames return.
RECURSIVE oncloseRuns(_)
oncloseRuns(free) ==
    IF free < 2 THEN IF free < 1 THEN 0 ELSE 1
    ELSE 1 + oncloseRuns(free - 2)

CloseCounts(ids) ==
    [by \in (DOMAIN hist.closes) \cup Closed(ids) |->
        IF by \in Closed(ids) THEN oncloseRuns(MaxStack) ELSE hist.closes[by]]

DestroySessions(ids) ==
    [id \in (DOMAIN sessions) \ Destroyed(ids) |-> sessions[id]]

DestroySession(sessionId) ==
    /\ Idle
    /\ sessions' = DestroySessions({sessionId})
    /\ hist' = [hist EXCEPT !.hooked = @ \cup Closed({sessionId}),
                            !.closes = CloseCounts({sessionId})]
    /\ resp' = Respond("destroySession", [sessionId |-> sessionId], 200, "",
                       IF HasSession(sessionId) THEN "true" ELSE "false",
                       sessionId, "")
    /\ UNCHANGED <<now, ticks, clients, clientsLoaded, storageFile,
                   pendingWrites, authCodes, tokens, nextClient, nextCode,
                   nextToken, restarts, transports, pendingTransports,
                   nextSession, requests, pendingSessions, suspended, calls,
                   exited>>

StaleSession_AtTimeout(session) ==
    now - session.lastActivity >= sessionTimeoutMs

StaleSession(session) == now - session.lastActivity > sessionTimeoutMs

cleanupStaleSessions ==
    LET staleSessionIds ==
            {id \in DOMAIN sessions : StaleSession(sessions[id])}
    IN  /\ Idle
        /\ sessions' = DestroySessions(staleSessionIds)
        /\ hist' = [hist EXCEPT !.hooked = @ \cup Closed(staleSessionIds),
                                !.closes = CloseCounts(staleSessionIds),
                                !.swept = @ \cup Closed(staleSessionIds)]
    /\ UNCHANGED <<now, ticks, clients, clientsLoaded, storageFile,
                   pendingWrites, authCodes, tokens, nextClient, nextCode,
                   nextToken, restarts, resp, transports, pendingTransports,
                   nextSession, requests, pendingSessions, suspended, calls,
                   exited>>

ManagerTickSteps == {1, sessionTimeoutMs}

NextManager ==
    \/ \E sessionId \in ManagerSessionIds, reqOk \in BOOLEAN :
           GetOrCreateSession(sessionId, reqOk)
    \/ ResumeCall
    \/ \E sessionId \in ManagerSessionIds : DestroySession(sessionId)
    \/ cleanupStaleSessions
    \/ \E d \in ManagerTickSteps : Tick(d)
    \/ Return

SpecManager == Init /\ [][NextManager]_vars

\* C18: for every session id the coordinator moves only along
\* absent -> pending -> active -> evicted: a session becomes active only
\* from pending (and the marker goes as it does), a marker is installed only
\* when the id has neither an active session nor a marker, a marker leaves
\* only into an active session or a failed creation, and a teardown hook
\* runs only for a session that was active and is removed in the same step.
C18_SessionLifecycle ==
    [][\A id \in ManagerSessionIds :
          LET active == id \in DOMAIN sessions
              activeAfter == id \in DOMAIN sessions'
              pending == id \in DOMAIN pendingSessions
              pendingAfter == id \in DOMAIN pendingSessions'
              installed == /\ pendingAfter
                           /\ pending => pendingSessions'[id] #
                                             pendingSessions[id]
          IN  /\ (~active /\ activeAfter) => pending /\ ~pendingAfter
              /\ installed => ~active /\ ~pending
              /\ (pending /\ ~pendingAfter) =>
                     \/ ~active /\ activeAfter
                     \/ ~activeAfter /\ id \in hist'.failed
              /\ (active /\ ~activeAfter) =>
                     /\ sessions[id].by \in hist'.hooked
                     /\ pendingSessions' = pendingSessions
              /\ \A call \in hist'.hooked \ hist.hooked :
                     \E gone \in (DOMAIN sessions) \ (DOMAIN sessions') :
                         sessions[gone].by = call]_vars

\* A second session for an id that was created, evicted and created again
\* has been published.
C18_Witness ==
    \E id \in DOMAIN sessions :
        /\ hist.hooked # {}
        /\ sessions[id].by \notin hist.hooked
        /\ sessions[id].by > 1
        /\ id \notin DOMAIN pendingSessions

\* C19: when a creation fails, the continuation of the creating call removes
\* the marker of its id, publishes nothing and answers that call with the
\* error, leaving the id neither active nor pending, so that the next call
\* for it creates afresh; every call that waited on the rejected promise is
\* answered with the error too and changes neither map; a call refused for
\* the session limit installs no marker and publishes nothing.
C19_CreationFailure ==
    [][/\ (Len(suspended') < Len(suspended)
              /\ Head(suspended).promise.state = "rejected") =>
              LET c == Head(suspended)
              IN  /\ resp'.op = "getOrCreateSession"
                  /\ resp'.status = 500
                  /\ resp'.out = c.call
                  /\ sessions' = sessions
                  /\ IF c.kind = "creator"
                     THEN /\ c.sessionId \notin DOMAIN pendingSessions'
                          /\ c.sessionId \notin DOMAIN sessions'
                          /\ \A id \in DOMAIN pendingSessions' :
                                 pendingSessions'[id] = pendingSessions[id]
                     ELSE pendingSessions' = pendingSessions
       /\ (Answers("getOrCreateSession") /\ resp'.desc = "limit") =>
              /\ resp'.status = 500
              /\ sessions' = sessions
              /\ pendingSessions' = pendingSessions
              /\ suspended' = suspended]_vars

\* A call that waited on a failed creation is answered with the error
\* after the creating call was, while a fresh creation for the same id is
\* already in flight.
C19_Witness ==
    /\ resp.op = "getOrCreateSession"
    /\ resp.status = 500
    /\ resp.desc = "waiter"
    /\ resp.req.sessionId \in hist.failed
    /\ resp.req.sessionId \in DOMAIN pendingSessions
    /\ pendingSessions[resp.req.sessionId].by > resp.req.call

\* C20: a run of the sweep destroys exactly the sessions whose last
\* activity lies more than the 30-minute timeout back: each of them has its
\* teardown hook run and is gone from the active map, and every session
\* whose last activity is within the timeout stays in the map as it was,
\* its hook not run; the sweep touches no pending marker.
C20_SweepEvictsOnlyIdle ==
    [][cleanupStaleSessions =>
          /\ \A id \in DOMAIN sessions :
                 IF now - sessions[id].lastActivity > 30 * 60 * 1000
                 THEN /\ id \notin DOMAIN sessions'
                      /\ sessions[id].by \in hist'.hooked
                 ELSE /\ id \in DOMAIN sessions'
                      /\ sessions'[id] = sessions[id]
                      /\ sessions[id].by \notin hist'.hooked
          /\ DOMAIN sessions' \subseteq DOMAIN sessions
          /\ pendingSessions' = pendingSessions]_vars

\* The sweep has destroyed one session and kept another whose idle time
\* is exactly the timeout.
C20_Witness ==
    /\ hist.swept # {}
    /\ \E id \in DOMAIN sessions :
           now - sessions[id].lastActivity = sessionTimeoutMs

-----------------------------------------------------------------------------
\* Process shutdown (interfaces.ts, process.on('SIGINT')).  Neither
\* setInterval keeps its handle (oauth.ts constructor, interfaces.ts session
\* cleanup), so the only thing that stops the two sweeps is the end of the
\* process: the SIGINT handler calls process.exit(0), after which no timer
\* callback and no request handler of this process runs.  The clock goes on.

processExit_Ignored(code) == FALSE

processExit(code) == TRUE

Running == ~exited

Sigint ==
    /\ Running
    /\ exited' = processExit(0)
    /\ hist' = [hist EXCEPT !.sigint = TRUE]
    /\ UNCHANGED <<now, ticks, clients, clientsLoaded, storageFile,
                   pendingWrites, authCodes, tokens, nextClient, nextCode,
                   nextToken, restarts, resp, transports, pendingTransports,
                   nextSession, requests>>
    /\ UNCHANGED managerVars

\* The requests of this part carry a minted token and no session id.
ShutdownTokens == 1 .. MaxTokens

NextShutdown ==
    \/ Running /\ \E req \in AuthorizeBaseReqs : Authorize(req)
    \/ Running /\ \E req \in ClientCredentialsReqs : Token(req)
    \/ Running /\ \E token \in ShutdownTokens : McpRequest(token, 0)
    \/ Running /\ CleanupExpired
    \/ Running /\ SessionSweep
    \/ \E d \in SessionTickSteps : Tick(d)
    \/ Return
    \/ Sigint

SpecShutdown == Init /\ [][NextShutdown]_vars

\* C21: once SIGINT has been delivered, neither the expiry sweep of the
\* authorization server nor the session sweep fires again: no code, token,
\* session or pending marker is removed from then on, however much time
\* passes.
C21_SweepsStopAtShutdown ==
    [][hist.sigint =>
          /\ authCodes' = authCodes
          /\ tokens' = tokens
          /\ transports' = transports
          /\ pendingTransports' = pendingTransports]_vars

\* After the shutdown the clock has passed the expiry of a stored token and
\* of a stored code and the idle limit of a session: both sweeps would have
\* had something to remove.
C21_Witness ==
    /\ hist.sigint
    /\ exited
    /\ \E token \in DOMAIN tokens : now > tokens[token].expires_at
    /\ \E code \in DOMAIN authCodes : now > authCodes[code].expires_at
    /\ \E id \in DOMAIN transports : Stale(transports[id])

-----------------------------------------------------------------------------
\* C22: a stored token changes in its last_used only: whatever step is
\* taken, a token that is in the Token Store before and after it has the
\* same client_id, scope, grant kind, issue times and expires_at.
C22_TokenImmutable ==
    [][\A token \in DOMAIN tokens :
          token \in DOMAIN tokens' =>
              [tokens'[token] EXCEPT !.last_used = tokens[token].last_used]
                  = tokens[token]]_vars

\* A stored token has been validated after the time it was minted at.
C22_Witness ==
    \E token \in DOMAIN tokens :
        /\ tokens[token].last_used > tokens[token].granted_at
        /\ tokens[token].expires_at = tokens[token].granted_at + TOKEN_TTL_MS

-----------------------------------------------------------------------------
\* C23: the id a valid registration creates is new to the registry for its
\* whole lifetime: it is the id of no client in memory, of no client in the
\* durable store and of no registration answered before, and the step adds
\* exactly that entry, every entry the registry held (reloaded from the
\* store first, after a restart) staying as it was.  randomBytes(16) is
\* taken never to repeat a value.
C23_ClientIdUnique ==
    [][\A id \in (DOMAIN hist'.registered) \ (DOMAIN hist.registered) :
          LET stored == IF ~clientsLoaded /\ storageFile.state = "ok"
                        THEN storageFile.data ELSE clients
          IN  /\ id \notin DOMAIN clients
              /\ id \notin DOMAIN storageFile.data
              /\ id \notin hist.regReturned
              /\ DOMAIN clients' = (DOMAIN stored) \cup {id}
              /\ \A held \in DOMAIN stored : clients'[held] = stored[held]
              /\ \A w \in pendingWrites' \ pendingWrites :
                     /\ w.client_id = id
                     /\ w.snapshot = clients']_vars

\* After a restart a registration has been made into the registry reloaded
\* from the store.
C23_Witness ==
    /\ restarts = 1
    /\ pendingWrites # {}
    /\ \E held \in DOMAIN clients :
           /\ held \in DOMAIN storageFile.data
           /\ \A w \in pendingWrites : w.client_id # held

-----------------------------------------------------------------------------
\* C24: a code enters the store only in the step of an authorize call that
\* answers with it, a stored code never changes, and a code leaves the
\* store only in the step of an exchange that answers 200 for it or when
\* the clock is past its expires_at: as long as it is unexpired, a refused
\* exchange, revoke, introspect, validate and the sweep leave it there.
C24_CodeFrame ==
    [][/\ \A code \in (DOMAIN authCodes') \ (DOMAIN authCodes) :
              /\ Answers("authorize")
              /\ resp'.status = 302
              /\ resp'.out = code
       /\ \A code \in DOMAIN authCodes :
              IF code \in DOMAIN authCodes'
              THEN authCodes'[code] = authCodes[code]
              ELSE \/ now > authCodes[code].expires_at
                   \/ /\ Answers("token")
                      /\ resp'.status = 200
                      /\ resp'.req.code = code]_vars

\* An exchange has just been refused for its verifier and the code it named
\* is still stored and unexpired.
C24_Witness ==
    /\ resp.op = "token"
    /\ resp.desc = "PKCE verification failed"
    /\ resp.req.code \in DOMAIN authCodes
    /\ ~(now > authCodes[resp.req.code].expires_at)
    /\ now > hist.codes[resp.req.code]

-----------------------------------------------------------------------------
\* The authorization_code exchange with every combination of defects in
\* one request.
TokenReqsAll ==
    [grant_type : {"authorization_code"},
     code : CodeValues,
     redirect_uri : {"", UriHttps, UriLocal},
     client_id : ClientIds \ {0},
     code_verifier : Verifiers \cup {<<>>}]

NextExchange ==
    \/ \E req \in AuthorizeBaseReqs : Authorize(req)
    \/ \E req \in TokenReqsAll : Token(req)
    \/ \E d \in TickSteps : Tick(d)
    \/ Return

SpecExchange == Init /\ [][NextExchange]_vars

\* C25: in an authorization_code exchange the first failing check, in this
\* order, decides the answer: a missing code, redirect_uri or verifier
\* (invalid_request); a code absent or expired (invalid_grant); a client_id
\* or redirect_uri other than the code's (invalid_grant); a verifier whose
\* length is outside 43-128 or that has a character outside the unreserved
\* set (invalid_request); a verifier that does not hash to the challenge
\* (invalid_grant); with none failing the answer is 200.
C25_ExchangeCheckOrder ==
    [][(Answers("token") /\ resp'.req.grant_type = "authorization_code") =>
          LET r == resp'.req
              v == r.code_verifier
              stored == authCodes[r.code]
              expected ==
                  IF r.code = 0 \/ r.redirect_uri = "" \/ v = <<>>
                  THEN "invalid_request"
                  ELSE IF r.code \notin DOMAIN authCodes
                  THEN "invalid_grant"
                  ELSE IF now > stored.expires_at
                  THEN "invalid_grant"
                  ELSE IF \/ stored.client_id # r.client_id
                          \/ stored.redirect_uri # r.redirect_uri
                  THEN "invalid_grant"
                  ELSE IF \/ Len(v) < 43
                          \/ Len(v) > 128
                          \/ \E i \in 1 .. Len(v) : v[i] \notin Unreserved
                  THEN "invalid_request"
                  ELSE IF S256(v) # stored.code_challenge
                  THEN "invalid_grant"
                  ELSE ""
          IN  /\ resp'.error = expected
              /\ resp'.status = IF expected = "" THEN 200 ELSE 400]_vars

\* A malformed verifier sent with a client_id other than the code's, for a
\* stored unexpired code, has been answered invalid_grant.
C25_Witness ==
    /\ resp.op = "token"
    /\ resp.req.code \in DOMAIN authCodes
    /\ ~(now > authCodes[resp.req.code].expires_at)
    /\ resp.req.redirect_uri = authCodes[resp.req.code].redirect_uri
    /\ resp.req.client_id # authCodes[resp.req.code].client_id
    /\ resp.req.code_verifier = VerifierPlus
    /\ resp.error = "invalid_grant"

-----------------------------------------------------------------------------
\* The expiry sweep on its own: codes and tokens are issued, time passes,
\* and nothing but the sweep removes them.
NextExpiry ==
    \/ \E req \in AuthorizeBaseReqs : Authorize(req)
    \/ \E req \in ClientCredentialsReqs : Token(req)
    \/ CleanupExpired
    \/ \E d \in TickSteps : Tick(d)
    \/ Return

SpecExpiry == Init /\ [][NextExpiry]_vars

\* C26: a run of cleanupExpired at time now removes exactly the expired
\* entries: no code and no token with expires_at < now is left, every code
\* and token with expires_at >= now is still there as it was, nothing is
\* added, and the Client Registry and its file are untouched.
C26_SweepRemovesExactlyExpired ==
    [][CleanupExpired =>
          /\ \A code \in DOMAIN authCodes :
                 IF authCodes[code].expires_at < now
                 THEN code \notin DOMAIN authCodes'
                 ELSE /\ code \in DOMAIN authCodes'
                      /\ authCodes'[code] = authCodes[code]
          /\ \A token \in DOMAIN tokens :
                 IF tokens[token].expires_at < now
                 THEN token \notin DOMAIN tokens'
                 ELSE /\ token \in DOMAIN tokens'
                      /\ tokens'[token] = tokens[token]
          /\ DOMAIN authCodes' \subseteq DOMAIN authCodes
          /\ DOMAIN tokens' \subseteq DOMAIN tokens
          /\ clients' = clients
          /\ clientsLoaded' = clientsLoaded
          /\ storageFile' = storageFile
          /\ pendingWrites' = pendingWrites]_vars

\* The sweep has removed an expired code and an expired token and has left
\* a token at the very instant of its expiry.
C26_Witness ==
    /\ (DOMAIN hist.codes) \ (DOMAIN authCodes) # {}
    /\ (DOMAIN hist.minted) \ (DOMAIN tokens) # {}
    /\ \E token \in DOMAIN tokens : tokens[token].expires_at = now

-----------------------------------------------------------------------------
\* SessionManager.addToHistory: push the entry, then keep the last 50 of a
\* history of more than 100 (the same numbers as transport.addToHistory of
\* interfaces.ts).  An entry is named by its place among all the entries
\* pushed to the session.

slice_First(history, n) == SubSeq(history, 1, n)

\* Array.prototype.slice(-n)
slice(history, n) ==
    IF Len(history) <= n THEN history
    ELSE SubSeq(history, Len(history) - n + 1, Len(history))

Pushed(session) ==
    IF session.by \in DOMAIN hist.appended THEN hist.appended[session.by]
    ELSE 0

AddToHistory(sessionId) ==
    /\ sessionId \in DOMAIN sessions
    /\ Pushed(sessions[sessionId]) < MaxAppends
    /\ LET session == sessions[sessionId]
           entry == Pushed(session) + 1
           pushed == Append(session.conversationHistory, entry)
       IN  /\ sessions' =
                  [sessions EXCEPT ![sessionId].conversationHistory =
                       IF Len(pushed) > HISTORY_LIMIT
                       THEN slice(pushed, HISTORY_KEEP)
                       ELSE pushed]
           /\ hist' = [hist EXCEPT !.appended = MapSet(@, session.by, entry)]
    /\ UNCHANGED <<now, ticks, clients, clientsLoaded, storageFile,
                   pendingWrites, authCodes, tokens, nextClient, nextCode,
                   nextToken, restarts, resp, transports, pendingTransports,
                   nextSession, requests, pendingSessions, suspended, calls,
                   exited>>

\* The session whose history is followed.
HistorySessionIds == {1}

NextHistory ==
    \/ \E sessionId \in HistorySessionIds : GetOrCreateSession(sessionId, TRUE)
    \/ ResumeCall
    \/ \E sessionId \in HistorySessionIds : AddToHistory(sessionId)
    \/ Return

SpecHistory == Init /\ [][NextHistory]_vars

\* C27: after every step the history of a session has at most 100 entries
\* and is the last Len entries, in order, of all the entries ever pushed to
\* the session; the push onto a history of 100 leaves exactly the newest
\* 50, and every other push lengthens the history by the entry pushed.
C27_HistoryBounded ==
    [][\A id \in (DOMAIN sessions) \cap (DOMAIN sessions') :
          LET before == sessions[id].conversationHistory
              after == sessions'[id].conversationHistory
              total == IF sessions'[id].by \in DOMAIN hist'.appended
                       THEN hist'.appended[sessions'[id].by] ELSE 0
          IN  /\ Len(after) <= 100
              /\ \A i \in 1 .. Len(after) :
                     after[i] = total - Len(after) + i
              /\ after # before =>
                     IF Len(before) = 100
                     THEN /\ Len(after) = 50
                          /\ after[50] = total
                          /\ after[1] = before[52]
                     ELSE after = Append(before, total)]_vars

\* The history of a session has been trimmed a second time.
C27_Witness ==
    \E id \in DOMAIN sessions :
        /\ Len(sessions[id].conversationHistory) = 50
        /\ Pushed(sessions[id]) = 152
        /\ sessions[id].conversationHistory[1] = 103

-----------------------------------------------------------------------------
\* Eviction under fairness.  Requests create and touch sessions and every
\* response is delivered.  The clock goes on while it can (Tick is capped by
\* MaxTicks) and the interval fires the sweep again and again, whatever the
\* request traffic: a timer callback runs between two handlers, so both
\* are strongly fair.  Nothing but the sweep removes a session here.
NextEvict ==
    \/ \E req \in ClientCredentialsReqs : Token(req)
    \/ \E token \in ShutdownTokens, header \in SessionIdHeaders :
           McpRequest(token, header)
    \/ SessionSweep
    \/ \E d \in SessionTickSteps : Tick(d)
    \/ Return

LiveEvict ==
    /\ Init
    /\ [][NextEvict]_vars
    /\ SF_vars(\E d \in SessionTickSteps : Tick(d))
    /\ SF_vars(SessionSweep)
    /\ WF_vars(Return)

\* C29: once no further request arrives (the request count has reached
\* its cap), every session that is active while the clock can still
\* advance is eventually evicted, and then its id has neither an active
\* session nor a pending marker.
C29_IdleSessionEvicted ==
    \A id \in 1 .. MaxSessions :
        (/\ id \in DOMAIN transports
         /\ requests = MaxRequests
         /\ ticks < MaxTicks)
            ~> (/\ id \notin DOMAIN transports
                /\ id \notin pendingTransports)

\* The sweep has evicted a session while another, used later, is active.
C29_Witness ==
    \E id \in 1 .. MaxSessions :
        /\ id < nextSession
        /\ id \notin DOMAIN transports
        /\ id \notin pendingTransports
        /\ DOMAIN transports # {}

-----------------------------------------------------------------------------
\* Pending creations under fairness.  The continuation of a suspended call
\* is a microtask: it runs before the next request or timer is handled, so
\* ResumeCall is strongly fair; every answer is delivered.
NextPending ==
    \/ \E sessionId \in ManagerSessionIds, reqOk \in BOOLEAN :
           GetOrCreateSession(sessionId, reqOk)
    \/ ResumeCall
    \/ \E sessionId \in ManagerSessionIds : DestroySession(sessionId)
    \/ Return

LivePending ==
    /\ Init
    /\ [][NextPending]_vars
    /\ SF_vars(ResumeCall)
    /\ WF_vars(Return)

Suspended(call) == \E i \in 1 .. Len(suspended) : suspended[i].call = call

\* C30: every pending marker is eventually removed, and every call that is
\* suspended on a creation, its own or another call's, is eventually
\* resumed.
C30_PendingResolves ==
    /\ \A id \in ManagerSessionIds :
           (id \in DOMAIN pendingSessions) ~> (id \notin DOMAIN pendingSessions)
    /\ \A call \in 1 .. MaxCalls : Suspended(call) ~> ~Suspended(call)

\* A call that waited on another call's creation has been given the
\* session, the marker being gone.
C30_Witness ==
    /\ resp.op = "getOrCreateSession"
    /\ resp.status = 200
    /\ resp.desc = "waiter"
    /\ resp.req.sessionId \in DOMAIN sessions
    /\ resp.req.sessionId \notin DOMAIN pendingSessions

-----------------------------------------------------------------------------
\* The session limit with one more session id than the limit allows.
LimitSessionIds == 1 .. (maxSessions + 1)

NextLimit ==
    \/ \E sessionId \in LimitSessionIds : GetOrCreateSession(sessionId, TRUE)
    \/ ResumeCall
    \/ \E sessionId \in LimitSessionIds : DestroySession(sessionId)
    \/ Return

SpecLimit == Init /\ [][NextLimit]_vars

\* C31: SessionManager never holds more than maxSessions active sessions,
\* however concurrent getOrCreateSession calls for distinct ids interleave.
C31_SessionLimit == Cardinality(DOMAIN sessions) <= maxSessions

-----------------------------------------------------------------------------
\* C32: in every reachable state of SessionManager no session id has both
\* an active session and a pending marker, and the session stored under an
\* id carries that id.
C32_ActiveXorPending ==
    \A id \in DOMAIN sessions :
        /\ id \notin DOMAIN pendingSessions
        /\ sessions[id].id = id

\* One id has an active session that a call has just been given again,
\* while the creation of another id is in flight.
C32_Witness ==
    /\ resp.op = "getOrCreateSession"
    /\ resp.desc = "existing"
    /\ resp.req.sessionId \in DOMAIN sessions
    /\ \E id \in DOMAIN pendingSessions : id # resp.req.sessionId

-----------------------------------------------------------------------------
\* C33: destroySession on an active session runs that session's teardown
\* hook exactly once.
C33_HookExactlyOnce ==
    \A by \in DOMAIN hist.closes : hist.closes[by] = 1

-----------------------------------------------------------------------------
\* C34: in every reachable state each stored authorization code names a
\* client of the Client Registry and one of that client's registered
\* redirect targets, and each stored token names a client of the registry.
C34_ReferentialIntegrity ==
    /\ \A code \in DOMAIN authCodes :
           /\ authCodes[code].client_id \in DOMAIN clients
           /\ SeqIncludes(clients[authCodes[code].client_id].redirect_uris,
                          authCodes[code].redirect_uri)
    /\ \A token \in DOMAIN tokens :
           tokens[token].client_id \in DOMAIN clients

\* A code and a token are stored for a client registered in this run.
C34_Witness ==
    /\ \E code \in DOMAIN authCodes, token \in DOMAIN tokens :
           tokens[token].client_id \in DOMAIN hist.registered
    /\ Cardinality(DOMAIN clients) >= 2
    /\ pendingWrites = {}

-----------------------------------------------------------------------------
\* Tokens of both grants and their use by validate and by the tool layer.
\* authorize reads scope from the query and stores nothing of it, so a code
\* carries no scope.
GrantReqs ==
    ClientCredentialsReqs \cup {ExchangeBase(code) : code \in 1 .. MaxCodes}

NextGrants ==
    \/ \E req \in AuthorizeBaseReqs : Authorize(req)
    \/ \E req \in GrantReqs : Token(req)
    \/ \E token \in ShutdownTokens, scope \in RequiredScopes :
           ValidateToken(token, scope)
    \/ \E token \in ShutdownTokens, header \in ToolSessionHeaders,
          toolName \in ToolNames : McpToolCall(token, header, toolName)
    \/ Return

SpecGrants == Init /\ [][NextGrants]_vars

\* C35: every token the token endpoint mints, by either grant, carries the
\* one default scope list, which has the universal scope in it, and no
\* validate call and no tool call is answered insufficient scope.
C35_DefaultScopeAlwaysSuffices ==
    [][/\ \A token \in (DOMAIN tokens') \ (DOMAIN tokens) :
              /\ tokens'[token].scope =
                     <<ScopeMcp, ScopeTasksRead, ScopeTasksWrite,
                       ScopeCalendarRead, ScopeCalendarWrite>>
              /\ tokens'[token].grant_type \in
                     {"authorization_code", "client_credentials"}
       /\ Answers("validate") => resp'.error # "insufficient_scope"
       /\ Answers("mcp") => resp'.status # 403]_vars

\* Tokens of both grants are stored and a validate call that required two
\* scopes has been answered valid.
C35_Witness ==
    /\ \E a \in DOMAIN tokens, b \in DOMAIN tokens :
           /\ tokens[a].grant_type = "authorization_code"
           /\ tokens[b].grant_type = "client_credentials"
    /\ resp.op = "validate"
    /\ resp.status = 200
    /\ Len(resp.req.requiredScope) = 2
    /\ hist.executed # {}

-----------------------------------------------------------------------------
\* C36: for every granted scope and every required scope or list of
\* required scopes, validateScopes reports valid exactly when checkScopes
\* returns true.
C36_ScopeCheckersAgree ==
    (resp.op = "validateScopes" /\ resp.req.required # <<>>) =>
        (resp.desc = "valid"
            <=> checkScopes(resp.req.granted, resp.req.required))

-----------------------------------------------------------------------------
\* Two registered clients, each with tokens of the client_credentials
\* grant, open sessions through /mcp and present session ids.
NextOwner ==
    \/ \E body \in RegBodies : RegisterClient(body)
    \/ \E w \in pendingWrites, outcome \in WriteOutcomes :
          WriteComplete(w, outcome)
    \/ \E req \in ClientCredentialsReqs : Token(req)
    \/ \E token \in ShutdownTokens, header \in SessionIdHeaders :
          McpRequest(token, header)
    \/ Return

SpecOwner == Init /\ [][NextOwner]_vars

\* C37: a /mcp request with a token of one client leaves every active
\* session that was created under another client as it was: its activity
\* timestamp and its history do not change.
C37_SessionOwnerOnly ==
    [][Answers("mcp") =>
        \A sessionId \in DOMAIN transports :
            (/\ resp'.req.token \in DOMAIN tokens
             /\ tokens[resp'.req.token].client_id
                    # transports[sessionId].client_id)
            => /\ sessionId \in DOMAIN transports'
               /\ transports'[sessionId] = transports[sessionId]]_vars

=============================================================================
